---- MODULE Spec2Model ----
(***************************************************************************)
(* Model of the boundary layer of chorus-mcp-server: the response          *)
(* normalizer (services/api-client.ts), the pagination window builder,     *)
(* the bounded output formatter (services/formatters.ts), the error        *)
(* classifier (services/error-handler.ts) and the tool handlers built on   *)
(* them (tools/conversations.ts, tools/teams.ts).                          *)
(*                                                                         *)
(* JavaScript values are tagged pairs <<tag, payload>>.  Objects keep      *)
(* their properties as a sequence of <<key, value>> pairs in insertion     *)
(* order, which is the order JSON.stringify and object spread observe.     *)
(* Texts are strings, measured and sliced by character.                    *)
(***************************************************************************)
EXTENDS Integers, Sequences, FiniteSets, TLC

VARIABLES page, norm, flat, err, fmt, env, upstream, requests, call, calls, server, trunc,
          client

vars ==
    <<page, norm, flat, err, fmt, env, upstream, requests, call, calls, server, trunc,
      client>>

(***************************************************************************)
(* Bounds of the model.                                                    *)
(***************************************************************************)
MaxItems == 3
MaxTotal == 5
MaxOffset == 4
MaxData == 2
MaxDelta == 1
MaxUsers == 3
MaxUpstream == 4
MaxSpread == 8
MaxInvocations == 8

(***************************************************************************)
(* JavaScript values.                                                      *)
(***************************************************************************)
Undefined == <<"undefined", 0>>
Null == <<"null", 0>>
Bool(b) == <<"bool", b>>
Num(n) == <<"num", n>>
Str(s) == <<"str", s>>
Arr(a) == <<"arr", a>>
Obj(ps) == <<"obj", ps>>

Tag(v) == v[1]
Val(v) == v[2]

\* The mark of a call that has not been made, or of a value that was not
\* produced.
NoCall == <<"none", 0>>

\* An exception travelling up the call stack, carrying the thrown value.
Throw(e) == <<"throw", e>>
Threw(v) == Tag(v) = "throw"
TypeError(m) == <<"error", m>>

IsNullish(v) == Tag(v) \in {"undefined", "null"}

\* typeof v === "object"
TypeofObject(v) == Tag(v) \in {"null", "arr", "obj"}

Keys(ps) == {ps[i][1] : i \in 1..Len(ps)}

Lookup(ps, k) == ps[CHOOSE i \in 1..Len(ps) : ps[i][1] = k][2]

\* o[k] = v on an object's property list: an existing key keeps its place.
SetProp(ps, k, v) ==
    IF k \in Keys(ps)
    THEN [i \in 1..Len(ps) |-> IF ps[i][1] = k THEN <<k, v>> ELSE ps[i]]
    ELSE Append(ps, <<k, v>>)

RECURSIVE SetAll(_, _)
SetAll(ps, qs) ==
    IF qs = <<>> THEN ps
    ELSE SetAll(SetProp(ps, Head(qs)[1], Head(qs)[2]), Tail(qs))

\* The own enumerable properties copied by {...v}.
OwnProps(v) ==
    CASE Tag(v) = "obj" -> Val(v)
      [] Tag(v) = "arr" -> [i \in 1..Len(Val(v)) |-> <<ToString(i - 1), Val(v)[i]>>]
      [] Tag(v) = "str" ->
           [i \in 1..Len(Val(v)) |-> <<ToString(i - 1), Str(SubSeq(Val(v), i, i))>>]
      [] OTHER -> <<>>

\* v.k (v[k]); throws on null and undefined.
GetProp(v, k) ==
    CASE IsNullish(v) -> Throw(TypeError("Cannot read properties of " \o Tag(v)))
      [] Tag(v) = "obj" -> IF k \in Keys(Val(v)) THEN Lookup(Val(v), k) ELSE Undefined
      [] Tag(v) \in {"arr", "str"} /\ k = "length" -> Num(Len(Val(v)))
      [] OTHER -> Undefined

\* v?.k
OptProp(v, k) == IF IsNullish(v) THEN Undefined ELSE GetProp(v, k)

\* "k" in v; throws when v is not an object.
InOp(k, v) ==
    CASE Tag(v) = "obj" -> Bool(k \in Keys(Val(v)))
      [] Tag(v) = "arr" -> Bool(k = "length")
      [] OTHER -> Throw(TypeError("Cannot use 'in' operator to search for '" \o k \o "'"))

\* Truthiness of a value in a condition.
Truthy(v) ==
    CASE Tag(v) \in {"undefined", "null"} -> FALSE
      [] Tag(v) = "bool" -> Val(v)
      [] Tag(v) = "num" -> Val(v) # 0
      [] Tag(v) = "str" -> Val(v) # ""
      [] OTHER -> TRUE

\* a || b
OrElse(a, b) == IF Truthy(a) THEN a ELSE b

\* String(v), also the conversion of ${v} in a template literal.
RECURSIVE JsString(_)
\* a.join(sep) from element i on: null and undefined elements are empty.
RECURSIVE JoinFrom(_, _, _)
JoinFrom(a, i, sep) ==
    IF i > Len(a) THEN ""
    ELSE (IF i > 1 THEN sep ELSE "")
         \o (IF IsNullish(a[i]) THEN "" ELSE JsString(a[i]))
         \o JoinFrom(a, i + 1, sep)
JsString(v) ==
    CASE Tag(v) = "undefined" -> "undefined"
      [] Tag(v) = "null" -> "null"
      [] Tag(v) = "bool" -> IF Val(v) THEN "true" ELSE "false"
      [] Tag(v) = "num" -> ToString(Val(v))
      [] Tag(v) = "str" -> Val(v)
      [] Tag(v) = "arr" -> JoinFrom(Val(v), 1, ",")
      [] Tag(v) = "error" -> "Error: " \o Val(v)
      [] Tag(v) = "axios" -> "AxiosError: " \o Val(v)[3]
      [] OTHER -> "[object Object]"

\* Text operations on strings.
StartsWith(t, p) == Len(t) >= Len(p) /\ SubSeq(t, 1, Len(p)) = p
EndsWith(t, p) == Len(t) >= Len(p) /\ SubSeq(t, Len(t) - Len(p) + 1, Len(t)) = p
Contains(t, p) == \E i \in 1..(Len(t) - Len(p) + 1) : SubSeq(t, i, i + Len(p) - 1) = p

(***************************************************************************)
(* services/formatters.ts: buildPaginatedResponse                          *)
(***************************************************************************)
\* buildPaginatedResponse with has_more computed by >= instead of >.
buildPaginatedResponseInclusive(items, total, offset) ==
    LET length == Len(Val(items))
        base == << <<"total", Num(total)>>,
                   <<"count", Num(length)>>,
                   <<"offset", Num(offset)>>,
                   <<"items", items>>,
                   <<"has_more", Bool(total >= offset + length)>> >>
    IN  Obj(SetAll(base,
                   OwnProps(IF total > offset + length
                            THEN Obj(<< <<"next_offset", Num(offset + length)>> >>)
                            ELSE Obj(<<>>))))

\* buildPaginatedResponse that reports a further page whenever the window
\* reaches the end of the result set exactly.
buildPaginatedResponseNextAtEnd(items, total, offset) ==
    LET length == Len(Val(items))
        base == << <<"total", Num(total)>>,
                   <<"count", Num(length)>>,
                   <<"offset", Num(offset)>>,
                   <<"items", items>>,
                   <<"has_more", Bool(total >= offset + length)>> >>
    IN  Obj(SetAll(base,
                   OwnProps(IF total >= offset + length
                            THEN Obj(<< <<"next_offset", Num(offset + length)>> >>)
                            ELSE Obj(<<>>))))

\* buildPaginatedResponse that names the caller's own offset as the next
\* one.
buildPaginatedResponseNextSame(items, total, offset) ==
    LET length == Len(Val(items))
        base == << <<"total", Num(total)>>,
                   <<"count", Num(length)>>,
                   <<"offset", Num(offset)>>,
                   <<"items", items>>,
                   <<"has_more", Bool(total > offset + length)>> >>
    IN  Obj(SetAll(base,
                   OwnProps(IF total > offset + length
                            THEN Obj(<< <<"next_offset", Num(offset)>> >>)
                            ELSE Obj(<<>>))))

buildPaginatedResponse(items, total, offset) ==
    LET length == Len(Val(items))
        base == << <<"total", Num(total)>>,
                   <<"count", Num(length)>>,
                   <<"offset", Num(offset)>>,
                   <<"items", items>>,
                   <<"has_more", Bool(total > offset + length)>> >>
    IN  Obj(SetAll(base,
                   OwnProps(IF total > offset + length
                            THEN Obj(<< <<"next_offset", Num(offset + length)>> >>)
                            ELSE Obj(<<>>))))

(***************************************************************************)
(* services/api-client.ts: response normalizer                             *)
(***************************************************************************)
\* Array.isArray(v)
IsArray(v) == Tag(v) = "arr"

isJsonApiList(body) ==
    IF ~(TypeofObject(body) /\ body # Null) THEN Bool(FALSE)
    ELSE IF InOp("data", body) # Bool(TRUE) THEN Bool(FALSE)
    ELSE LET data == GetProp(body, "data")
         IN  IF ~IsArray(data) THEN Bool(FALSE)
             ELSE IF ~(Len(Val(data)) > 0) THEN Bool(FALSE)
             ELSE InOp("attributes", Val(data)[1])

isJsonApiSingle(body) ==
    IF ~(TypeofObject(body) /\ body # Null) THEN Bool(FALSE)
    ELSE IF InOp("data", body) # Bool(TRUE) THEN Bool(FALSE)
    ELSE LET data == GetProp(body, "data")
         IN  IF IsArray(data) THEN Bool(FALSE)
             ELSE IF ~TypeofObject(data) THEN Bool(FALSE)
             ELSE IF data = Null THEN Bool(FALSE)
             ELSE InOp("attributes", data)

\* { id: record.id, ...record.attributes }
flattenRecord(record) ==
    LET id == GetProp(record, "id")
    IN  IF Threw(id) THEN id
        ELSE Obj(SetAll(<< <<"id", id>> >>, OwnProps(GetProp(record, "attributes"))))

\* data.map(flattenRecord): the first exception thrown by the callback
\* leaves map.
MapFlatten(data) ==
    LET out == [i \in 1..Len(data) |-> flattenRecord(data[i])]
    IN  IF \E i \in 1..Len(data) : Threw(out[i])
        THEN out[CHOOSE i \in 1..Len(data) :
                     Threw(out[i]) /\ \A j \in 1..(i - 1) : ~Threw(out[j])]
        ELSE Arr(out)

\* a || b in the place of a ?? b
CoalesceFalsy(a, b) == IF Truthy(a) THEN a ELSE b

\* a ?? b
Coalesce(a, b) == IF IsNullish(a) THEN b ELSE a

\* normalizeResponse reading the total of an empty `data` array from
\* meta.page.total.
normalizeResponseEmptyFromMeta(body) ==
    LET isList == isJsonApiList(body)
    IN  IF Threw(isList) THEN isList
        ELSE IF isList = Bool(TRUE)
        THEN LET items == MapFlatten(Val(GetProp(body, "data")))
                 metaPage == OptProp(GetProp(body, "meta"), "page")
             IN  IF Threw(items) THEN items
                 ELSE Obj(SetAll(<<>>,
                        << <<"items", items>>,
                           <<"total", Coalesce(OptProp(metaPage, "total"),
                                               Num(Len(Val(items))))>>,
                           <<"cursor", OptProp(metaPage, "cursor")>> >>))
        ELSE IF isJsonApiSingle(body) = Bool(TRUE)
        THEN flattenRecord(GetProp(body, "data"))
        ELSE IF /\ TypeofObject(body)
                /\ body # Null
                /\ InOp("data", body) = Bool(TRUE)
                /\ IsArray(GetProp(body, "data"))
                /\ Len(Val(GetProp(body, "data"))) = 0
        THEN Obj(<< <<"items", Arr(<<>>)>>,
                    <<"total", Coalesce(OptProp(OptProp(GetProp(body, "meta"), "page"),
                                                "total"),
                                        Num(0))>> >>)
        ELSE body

\* normalizeResponse turning a bare array body into a collection.
normalizeResponseWrapArrays(body) ==
    LET isList == isJsonApiList(body)
    IN  IF Threw(isList) THEN isList
        ELSE IF isList = Bool(TRUE)
        THEN LET items == MapFlatten(Val(GetProp(body, "data")))
                 metaPage == OptProp(GetProp(body, "meta"), "page")
             IN  IF Threw(items) THEN items
                 ELSE Obj(SetAll(<<>>,
                        << <<"items", items>>,
                           <<"total", Coalesce(OptProp(metaPage, "total"),
                                               Num(Len(Val(items))))>>,
                           <<"cursor", OptProp(metaPage, "cursor")>> >>))
        ELSE IF isJsonApiSingle(body) = Bool(TRUE)
        THEN flattenRecord(GetProp(body, "data"))
        ELSE IF /\ TypeofObject(body)
                /\ body # Null
                /\ InOp("data", body) = Bool(TRUE)
                /\ IsArray(GetProp(body, "data"))
                /\ Len(Val(GetProp(body, "data"))) = 0
        THEN Obj(<< <<"items", Arr(<<>>)>>, <<"total", Num(0)>> >>)
        ELSE IF IsArray(body)
        THEN Obj(<< <<"items", body>>, <<"total", Num(Len(Val(body)))>> >>)
        ELSE body

normalizeResponse(body) ==
    LET isList == isJsonApiList(body)
    IN  IF Threw(isList) THEN isList
        ELSE IF isList = Bool(TRUE)
        THEN LET items == MapFlatten(Val(GetProp(body, "data")))
                 metaPage == OptProp(GetProp(body, "meta"), "page")
             IN  IF Threw(items) THEN items
                 ELSE Obj(SetAll(<<>>,
                        << <<"items", items>>,
                           <<"total", Coalesce(OptProp(metaPage, "total"),
                                               Num(Len(Val(items))))>>,
                           <<"cursor", OptProp(metaPage, "cursor")>> >>))
        ELSE IF isJsonApiSingle(body) = Bool(TRUE)
        THEN flattenRecord(GetProp(body, "data"))
        ELSE IF /\ TypeofObject(body)
                /\ body # Null
                /\ InOp("data", body) = Bool(TRUE)
                /\ IsArray(GetProp(body, "data"))
                /\ Len(Val(GetProp(body, "data"))) = 0
        THEN Obj(<< <<"items", Arr(<<>>)>>, <<"total", Num(0)>> >>)
        ELSE body


(***************************************************************************)
(* services/error-handler.ts: handleApiError                               *)
(***************************************************************************)
\* Thrown values.  An AxiosError carries its response (or none), its code
\* and its message; any other Error carries its message; anything else is
\* a plain value.
NoResponse == <<"none", 0>>
Response(status, data) == <<"response", <<status, data>>>>
AxiosError(response, code, message) == <<"axios", <<response, code, message>>>>
Error(message) == <<"error", message>>

\* axios.isAxiosError(error)
isAxiosError(error) == Tag(error) = "axios"
\* error instanceof Error
InstanceofError(error) == Tag(error) \in {"axios", "error"}
ErrorMessage(error) == IF Tag(error) = "axios" THEN Val(error)[3] ELSE Val(error)

UnexpectedText(error) ==
    "Error: Unexpected error occurred: "
        \o (IF InstanceofError(error) THEN ErrorMessage(error) ELSE JsString(error))

ResponseMessage(data) ==
    IF TypeofObject(data) /\ data # Null
    THEN Coalesce(Coalesce(GetProp(data, "message"), GetProp(data, "error")), Str(""))
    ELSE Str("")

StatusText(status, message) ==
    CASE status = 400 ->
           "Error: Bad request. "
               \o (IF Truthy(message) THEN JsString(message)
                   ELSE "Check your parameters and try again.")
      [] status = 401 ->
           "Error: Authentication failed. Check your CHORUS_API_KEY environment variable. Generate a token from Chorus Personal Settings."
      [] status = 403 ->
           "Error: Access denied. Your API key may lack permissions for this resource, or the recording is marked as private."
      [] status = 404 ->
           "Error: Resource not found. Verify the ID is correct and that you have access to this resource."
      [] status = 429 ->
           "Error: Rate limit exceeded. Wait a moment before making more requests."
      [] OTHER ->
           IF status >= 500
           THEN "Error: Chorus API server error (" \o ToString(status) \o "). Try again later."
           ELSE "Error: API request failed with status " \o ToString(status) \o ". "
                    \o (IF Truthy(message) THEN JsString(message) ELSE "")

\* handleApiError whose final return sits inside the Axios branch: other
\* thrown values are thrown again.
handleApiErrorRethrow(error) ==
    IF isAxiosError(error)
    THEN LET response == Val(error)[1]
             code == Val(error)[2]
         IN  IF response # NoResponse
             THEN Str(StatusText(Val(response)[1], ResponseMessage(Val(response)[2])))
             ELSE IF code = Str("ECONNABORTED")
             THEN Str("Error: Request timed out. The Chorus API did not respond within 30 seconds. Try again.")
             ELSE IF code = Str("ECONNREFUSED")
             THEN Str("Error: Could not connect to the Chorus API. Check your network connection.")
             ELSE Str(UnexpectedText(error))
    ELSE Throw(error)

\* handleApiError classifying an Axios error by its code before its
\* response.
handleApiErrorCodeFirst(error) ==
    IF isAxiosError(error) /\ Val(error)[2] = Str("ECONNABORTED")
    THEN Str("Error: Request timed out. The Chorus API did not respond within 30 seconds. Try again.")
    ELSE IF isAxiosError(error) /\ Val(error)[1] # NoResponse
    THEN Str(StatusText(Val(Val(error)[1])[1], ResponseMessage(Val(Val(error)[1])[2])))
    ELSE IF isAxiosError(error) /\ Val(error)[2] = Str("ECONNREFUSED")
    THEN Str("Error: Could not connect to the Chorus API. Check your network connection.")
    ELSE Str(UnexpectedText(error))

handleApiError(error) ==
    IF isAxiosError(error) /\ Val(error)[1] # NoResponse
    THEN Str(StatusText(Val(Val(error)[1])[1], ResponseMessage(Val(Val(error)[1])[2])))
    ELSE IF isAxiosError(error) /\ Val(error)[2] = Str("ECONNABORTED")
    THEN Str("Error: Request timed out. The Chorus API did not respond within 30 seconds. Try again.")
    ELSE IF isAxiosError(error) /\ Val(error)[2] = Str("ECONNREFUSED")
    THEN Str("Error: Could not connect to the Chorus API. Check your network connection.")
    ELSE Str(UnexpectedText(error))

(***************************************************************************)
(* constants.ts and services/formatters.ts: truncateResponse, formatOutput *)
(***************************************************************************)
CHARACTER_LIMIT == 25000

\* The notice appended by truncateResponse.  The source writes limit and
\* offset between backquotes, a character TLA+ strings cannot hold; they
\* stand here between single quotes, which keeps the length.
TruncationNotice ==
    "\n\n---\n*Response truncated. Use 'limit' and 'offset' parameters or add filters to see more results.*"

\* truncateResponse that appends the notice to the whole text instead of
\* the slice.
truncateResponseNoSlice(text) ==
    LET length == GetProp(text, "length")
    IN  IF Threw(length) THEN length
        ELSE IF Val(length) <= CHARACTER_LIMIT THEN text
        ELSE Str(Val(text) \o TruncationNotice)

\* truncateResponse that keeps the last CHARACTER_LIMIT characters.
truncateResponseTail(text) ==
    LET length == GetProp(text, "length")
    IN  IF Threw(length) THEN length
        ELSE IF Val(length) <= CHARACTER_LIMIT THEN text
        ELSE Str(SubSeq(Val(text), Val(length) - CHARACTER_LIMIT + 1, Val(length))
                 \o TruncationNotice)

\* truncateResponse that truncates a text of exactly CHARACTER_LIMIT
\* characters too.
truncateResponseStrict(text) ==
    LET length == GetProp(text, "length")
    IN  IF Threw(length) THEN length
        ELSE IF Val(length) < CHARACTER_LIMIT THEN text
        ELSE Str(SubSeq(Val(text), 1, CHARACTER_LIMIT) \o TruncationNotice)

\* truncateResponse that puts the notice in front of the slice.
truncateResponseNoticeFirst(text) ==
    LET length == GetProp(text, "length")
    IN  IF Threw(length) THEN length
        ELSE IF Val(length) <= CHARACTER_LIMIT THEN text
        ELSE Str(TruncationNotice \o SubSeq(Val(text), 1, CHARACTER_LIMIT))

truncateResponse(text) ==
    LET length == GetProp(text, "length")
    IN  IF Threw(length) THEN length
        ELSE IF Val(length) <= CHARACTER_LIMIT THEN text
        ELSE Str(SubSeq(Val(text), 1, CHARACTER_LIMIT) \o TruncationNotice)

\* JSON.stringify: QuoteJSONString on the characters lo..hi of s.
EscapeChar(c) ==
    CASE c = "\"" -> "\\\""
      [] c = "\\" -> "\\\\"
      [] c = "\n" -> "\\n"
      [] OTHER -> c

RECURSIVE EscapeRange(_, _, _)
EscapeRange(s, lo, hi) ==
    IF lo > hi THEN ""
    ELSE IF lo = hi THEN EscapeChar(SubSeq(s, lo, lo))
    ELSE LET mid == (lo + hi) \div 2
         IN  EscapeRange(s, lo, mid) \o EscapeRange(s, mid + 1, hi)

Quote(s) == "\"" \o EscapeRange(s, 1, Len(s)) \o "\""

\* The properties JSON.stringify writes: those whose value is not undefined.
IsDefinedProp(p) == p[2] # Undefined

\* JSON.stringify(value, null, 2): SerializeJSONProperty with the gap of
\* two spaces; indent is the indentation of the enclosing line.
RECURSIVE Serialize(_, _)
RECURSIVE SerializeElements(_, _, _)
RECURSIVE SerializeProperties(_, _, _)
SerializeElements(a, i, indent) ==
    IF i > Len(a) THEN ""
    ELSE (IF i > 1 THEN ",\n" ELSE "")
         \o indent
         \o (IF a[i] = Undefined THEN "null" ELSE Serialize(a[i], indent))
         \o SerializeElements(a, i + 1, indent)
SerializeProperties(ps, i, indent) ==
    IF i > Len(ps) THEN ""
    ELSE (IF i > 1 THEN ",\n" ELSE "")
         \o indent \o Quote(ps[i][1]) \o ": " \o Serialize(ps[i][2], indent)
         \o SerializeProperties(ps, i + 1, indent)
Serialize(v, indent) ==
    CASE Tag(v) = "null" -> "null"
      [] Tag(v) = "bool" -> IF Val(v) THEN "true" ELSE "false"
      [] Tag(v) = "num" -> ToString(Val(v))
      [] Tag(v) = "str" -> Quote(Val(v))
      [] Tag(v) = "arr" ->
           IF Val(v) = <<>> THEN "[]"
           ELSE "[\n" \o SerializeElements(Val(v), 1, indent \o "  ")
                \o "\n" \o indent \o "]"
      [] Tag(v) = "obj" ->
           LET ps == SelectSeq(Val(v), IsDefinedProp)
           IN  IF ps = <<>> THEN "{}"
               ELSE "{\n" \o SerializeProperties(ps, 1, indent \o "  ")
                    \o "\n" \o indent \o "}"

JSONStringify(value) ==
    IF value = Undefined THEN Undefined ELSE Str(Serialize(value, ""))

\* formatOutput with the two branches exchanged.
formatOutputSwapped(data, markdownFormatter, responseFormat) ==
    LET text == IF responseFormat = "json"
                THEN markdownFormatter
                ELSE JSONStringify(data)
    IN  IF Threw(text) THEN text ELSE truncateResponse(text)

\* markdownFormatter stands for the outcome of calling the caller's
\* renderer: the text it returns or the exception it throws.
formatOutput(data, markdownFormatter, responseFormat) ==
    LET text == IF responseFormat = "markdown"
                THEN markdownFormatter
                ELSE JSONStringify(data)
    IN  IF Threw(text) THEN text ELSE truncateResponse(text)

(***************************************************************************)
(* services/formatters.ts: the helpers of the markdown renderers           *)
(***************************************************************************)
\* Dates the model renders; en-US, UTC.
KnownDates == [d \in {"2024-06-15T14:30:00Z"} |-> "Jun 15, 2024, 02:30 PM"]

\* formatDate: an unparsable date string comes back unchanged.
formatDate(isoString) ==
    IF Val(isoString) \in DOMAIN KnownDates THEN KnownDates[Val(isoString)]
    ELSE Val(isoString)

formatDuration(seconds) ==
    LET minutes == seconds \div 60
        remaining == seconds % 60
        hours == minutes \div 60
        remainingMinutes == minutes % 60
    IN  IF seconds < 60 THEN ToString(seconds) \o "s"
        ELSE IF minutes < 60
        THEN (IF remaining > 0
              THEN ToString(minutes) \o "m " \o ToString(remaining) \o "s"
              ELSE ToString(minutes) \o "m")
        ELSE (IF remainingMinutes > 0
              THEN ToString(hours) \o "h " \o ToString(remainingMinutes) \o "m"
              ELSE ToString(hours) \o "h")

\* participants.map((p) => p.name): throws on a null participant.
MapName(ps) ==
    LET out == [i \in 1..Len(ps) |-> GetProp(ps[i], "name")]
    IN  IF \E i \in 1..Len(ps) : Threw(out[i])
        THEN out[CHOOSE i \in 1..Len(ps) :
                     Threw(out[i]) /\ \A j \in 1..(i - 1) : ~Threw(out[j])]
        ELSE Arr(out)

\* formatParticipants; a value that is not an array has no map.
formatParticipants(participants) ==
    IF ~IsArray(participants)
    THEN Throw(TypeError("participants.map is not a function"))
    ELSE LET n == Len(Val(participants))
             shown == MapName(IF n <= 3 THEN Val(participants)
                              ELSE SubSeq(Val(participants), 1, 3))
         IN  IF n = 0 THEN Str("None")
             ELSE IF Threw(shown) THEN shown
             ELSE IF n <= 3 THEN Str(JoinFrom(Val(shown), 1, ", "))
             ELSE Str(JoinFrom(Val(shown), 1, ", ")
                      \o " (+" \o ToString(n - 3) \o " others)")

formatPaginationInfo(response) ==
    "Showing " \o JsString(GetProp(response, "count"))
        \o " of " \o JsString(GetProp(response, "total"))
        \o " results (offset: " \o JsString(GetProp(response, "offset")) \o ")"
        \o (IF Truthy(GetProp(response, "has_more"))
               /\ GetProp(response, "next_offset") # Undefined
            THEN "\nMore results available. Use offset="
                     \o JsString(GetProp(response, "next_offset"))
            ELSE "")

\* lines.join("\n") on a sequence of strings
RECURSIVE JoinLines(_)
JoinLines(lines) ==
    IF lines = <<>> THEN ""
    ELSE IF Len(lines) = 1 THEN lines[1]
    ELSE lines[1] \o "\n" \o JoinLines(Tail(lines))

(***************************************************************************)
(* JSON.parse and Jest's toEqual, as the unit tests apply them to the      *)
(* formatter's output.                                                     *)
(***************************************************************************)
SyntaxError == Throw(Error("Unexpected token in JSON"))

\* The character at position i, "" past the end.
CharAt(t, i) == IF i >= 1 /\ i <= Len(t) THEN SubSeq(t, i, i) ELSE ""

Digits == {"0", "1", "2", "3", "4", "5", "6", "7", "8", "9"}
DigitValue(c) == CHOOSE d \in 0..9 : ToString(d) = c

RECURSIVE SkipWhitespace(_, _)
SkipWhitespace(t, i) ==
    IF CharAt(t, i) \in {" ", "\n", "\t", "\r"} THEN SkipWhitespace(t, i + 1) ELSE i

\* Each parser returns <<value, next position>>; value is a SyntaxError
\* when the text is not JSON.
\* The first position in lo..hi holding a quote, a backslash or a line
\* break, 0 when there is none.
RECURSIVE FirstSpecial(_, _, _)
FirstSpecial(t, lo, hi) ==
    IF lo > hi THEN 0
    ELSE IF lo = hi THEN (IF CharAt(t, lo) \in {"\"", "\\", "\n"} THEN lo ELSE 0)
    ELSE LET mid == (lo + hi) \div 2
             left == FirstSpecial(t, lo, mid)
         IN  IF left # 0 THEN left ELSE FirstSpecial(t, mid + 1, hi)

RECURSIVE ParseStringBody(_, _, _)
ParseStringBody(t, i, acc) ==
    LET p == FirstSpecial(t, i, Len(t))
        c == CharAt(t, p)
        run == acc \o SubSeq(t, i, p - 1)
    IN  CASE p = 0 -> <<SyntaxError, i>>
          [] c = "\n" -> <<SyntaxError, p>>
          [] c = "\"" -> <<Str(run), p + 1>>
          [] OTHER ->
               LET e == CharAt(t, p + 1)
               IN  CASE e = "n" -> ParseStringBody(t, p + 2, run \o "\n")
                     [] e = "\"" -> ParseStringBody(t, p + 2, run \o "\"")
                     [] e = "\\" -> ParseStringBody(t, p + 2, run \o "\\")
                     [] OTHER -> <<SyntaxError, p>>

RECURSIVE ParseDigits(_, _, _)
ParseDigits(t, i, acc) ==
    IF CharAt(t, i) \in Digits
    THEN ParseDigits(t, i + 1, 10 * acc + DigitValue(CharAt(t, i)))
    ELSE <<acc, i>>

ParseNumber(t, i) ==
    LET negative == CharAt(t, i) = "-"
        start == IF negative THEN i + 1 ELSE i
        r == ParseDigits(t, start, 0)
    IN  IF CharAt(t, start) \notin Digits THEN <<SyntaxError, i>>
        ELSE <<Num(IF negative THEN 0 - r[1] ELSE r[1]), r[2]>>

ParseLiteral(t, i, word, value) ==
    IF SubSeq(t, i, i + Len(word) - 1) = word THEN <<value, i + Len(word)>>
    ELSE <<SyntaxError, i>>

RECURSIVE ParseValue(_, _)
RECURSIVE ParseElements(_, _, _)
RECURSIVE ParseMembers(_, _, _)
ParseElements(t, i, acc) ==
    LET r == ParseValue(t, i)
        j == SkipWhitespace(t, r[2])
    IN  IF Threw(r[1]) THEN r
        ELSE IF CharAt(t, j) = "," THEN ParseElements(t, j + 1, Append(acc, r[1]))
        ELSE IF CharAt(t, j) = "]" THEN <<Arr(Append(acc, r[1])), j + 1>>
        ELSE <<SyntaxError, j>>
ParseMembers(t, i, acc) ==
    LET k == SkipWhitespace(t, i)
        key == IF CharAt(t, k) = "\"" THEN ParseStringBody(t, k + 1, "")
               ELSE <<SyntaxError, k>>
        c == SkipWhitespace(t, key[2])
        r == ParseValue(t, c + 1)
        j == SkipWhitespace(t, r[2])
    IN  IF Threw(key[1]) THEN key
        ELSE IF CharAt(t, c) # ":" THEN <<SyntaxError, c>>
        ELSE IF Threw(r[1]) THEN r
        ELSE IF CharAt(t, j) = ","
        THEN ParseMembers(t, j + 1, SetProp(acc, Val(key[1]), r[1]))
        ELSE IF CharAt(t, j) = "}"
        THEN <<Obj(SetProp(acc, Val(key[1]), r[1])), j + 1>>
        ELSE <<SyntaxError, j>>
ParseValue(t, i) ==
    LET j == SkipWhitespace(t, i)
        c == CharAt(t, j)
    IN  CASE c = "{" ->
               IF CharAt(t, SkipWhitespace(t, j + 1)) = "}"
               THEN <<Obj(<<>>), SkipWhitespace(t, j + 1) + 1>>
               ELSE ParseMembers(t, j + 1, <<>>)
          [] c = "[" ->
               IF CharAt(t, SkipWhitespace(t, j + 1)) = "]"
               THEN <<Arr(<<>>), SkipWhitespace(t, j + 1) + 1>>
               ELSE ParseElements(t, j + 1, <<>>)
          [] c = "\"" -> ParseStringBody(t, j + 1, "")
          [] c = "t" -> ParseLiteral(t, j, "true", Bool(TRUE))
          [] c = "f" -> ParseLiteral(t, j, "false", Bool(FALSE))
          [] c = "n" -> ParseLiteral(t, j, "null", Null)
          [] c = "-" \/ c \in Digits -> ParseNumber(t, j)
          [] OTHER -> <<SyntaxError, j>>

JSONParse(text) ==
    LET r == ParseValue(text, 1)
    IN  IF Threw(r[1]) THEN r[1]
        ELSE IF SkipWhitespace(text, r[2]) = Len(text) + 1 THEN r[1]
        ELSE SyntaxError

\* expect(a).toEqual(b): recursive equality that ignores properties whose
\* value is undefined.
DefinedKeys(ps) == {ps[i][1] : i \in {j \in 1..Len(ps) : ps[j][2] # Undefined}}

RECURSIVE ToEqual(_, _)
ToEqual(a, b) ==
    IF Tag(a) # Tag(b) THEN FALSE
    ELSE CASE Tag(a) = "obj" ->
                /\ DefinedKeys(Val(a)) = DefinedKeys(Val(b))
                /\ \A k \in DefinedKeys(Val(a)) :
                       ToEqual(Lookup(Val(a), k), Lookup(Val(b), k))
           [] Tag(a) = "arr" ->
                /\ Len(Val(a)) = Len(Val(b))
                /\ \A i \in 1..Len(Val(a)) : ToEqual(Val(a)[i], Val(b)[i])
           [] OTHER -> a = b

(***************************************************************************)
(* services/api-client.ts: getApiKey and the request of makeApiRequest     *)
(***************************************************************************)
API_BASE_URL == "https://chorus.ai/api/v1"

\* getApiKey handing out whatever the environment holds, set or not.
getApiKeyUnchecked(environment) == environment.CHORUS_API_KEY

getApiKey(environment) ==
    LET key == environment.CHORUS_API_KEY
    IN  IF ~Truthy(key)
        THEN Throw(Error("CHORUS_API_KEY environment variable is not set. "
                         \o "Generate an API token from your Chorus Personal Settings page."))
        ELSE key

\* The AxiosRequestConfig that makeApiRequest hands to axios.
RequestConfig(endpoint, method, params, apiKey) ==
    [method |-> method,
     url |-> API_BASE_URL \o "/" \o endpoint,
     authorization |-> apiKey,
     params |-> params,
     timeout |-> 30000]

(***************************************************************************)
(* The catch clause and the returned content of every tool handler         *)
(***************************************************************************)
ToolResult(text) ==
    Obj(<< <<"content", Arr(<< Obj(<< <<"type", Str("text")>>, <<"text", text>> >>) >>)>> >>)

\* A catch clause that converts Axios errors only and throws the rest on.
CatchAxiosOnly(outcome) ==
    IF ~Threw(outcome) THEN ToolResult(outcome)
    ELSE IF isAxiosError(Val(outcome)) THEN ToolResult(handleApiError(Val(outcome)))
    ELSE outcome

\* try { ... return { content: [{ type: "text", text }] } }
\* catch (error) { return { content: [{ type: "text", text: handleApiError(error) }] } }
\* outcome is the text the try block computed or the exception it threw.
\* An exception leaving handleApiError rejects the handler's promise.
Catch(outcome) ==
    IF ~Threw(outcome) THEN ToolResult(outcome)
    ELSE LET message == handleApiError(Val(outcome))
         IN  IF Threw(message) THEN message ELSE ToolResult(message)

\* The first exception among a sequence of outcomes.
FirstThrow(out) ==
    out[CHOOSE i \in 1..Len(out) : Threw(out[i]) /\ \A j \in 1..(i - 1) : ~Threw(out[j])]

RECURSIVE Flatten(_)
Flatten(seqs) == IF seqs = <<>> THEN <<>> ELSE Head(seqs) \o Flatten(Tail(seqs))

(***************************************************************************)
(* tools/conversations.ts: chorus_list_conversations                       *)
(***************************************************************************)
\* extractMeta(c) and the lines the renderer pushes for one conversation.
ConversationLines(c) ==
    LET recordingProp == GetProp(c, "recording")
        recording == OrElse(recordingProp, Obj(<<>>))
        name == OrElse(GetProp(c, "name"), Str("Untitled Conversation"))
        id == GetProp(c, "id")
        date == OrElse(GetProp(recording, "start_time"), Str(""))
        duration == OrElse(GetProp(recording, "duration"), Num(0))
        participants == formatParticipants(OrElse(GetProp(c, "participants"), Arr(<<>>)))
        status == GetProp(c, "status")
    IN  IF Threw(recordingProp) THEN recordingProp
        ELSE IF Threw(participants) THEN participants
        ELSE <<"lines",
               << "## " \o JsString(name) \o " (" \o JsString(id) \o ")",
                  "- **Date**: " \o formatDate(date),
                  "- **Duration**: " \o formatDuration(Val(duration)),
                  "- **Participants**: " \o Val(participants) >>
               \o (IF Truthy(status) THEN << "- **Status**: " \o JsString(status) >>
                   ELSE <<>>)
               \o << "" >> >>

ListConversationsMarkdown(response, conversations) ==
    LET blocks == [i \in 1..Len(conversations) |-> ConversationLines(conversations[i])]
    IN  IF \E i \in 1..Len(blocks) : Threw(blocks[i]) THEN FirstThrow(blocks)
        ELSE Str(JoinLines(<< "# Conversations", "", formatPaginationInfo(response), "" >>
                           \o Flatten([i \in 1..Len(blocks) |-> blocks[i][2]])))

\* The list window counting the received page as the whole result set.
ListConversationsWindowLocalTotal(params, data) ==
    LET itemsProp == GetProp(data, "items")
        conversations == OrElse(itemsProp, Arr(<<>>))
    IN  IF Threw(itemsProp) THEN NoCall
        ELSE buildPaginatedResponse(conversations, Len(Val(conversations)), params.offset)

\* The window the handler builds from the normalized response: the items
\* as they came, the reported total, the caller's offset.  NoCall when the
\* handler throws before it builds one.
ListConversationsWindow(params, data) ==
    LET itemsProp == GetProp(data, "items")
        conversations == OrElse(itemsProp, Arr(<<>>))
        total == OrElse(GetProp(data, "total"), GetProp(conversations, "length"))
    IN  IF Threw(itemsProp) THEN NoCall
        ELSE buildPaginatedResponse(conversations, Val(total), params.offset)

\* The handler deciding emptiness by the reported total instead of the
\* number of items.
ListConversationsAfterAwaitEmptyByTotal(params, data) ==
    LET itemsProp == GetProp(data, "items")
        conversations == OrElse(itemsProp, Arr(<<>>))
        total == OrElse(GetProp(data, "total"), GetProp(conversations, "length"))
        response == ListConversationsWindow(params, data)
    IN  IF Threw(itemsProp) THEN itemsProp
        ELSE IF Val(total) = 0
        THEN Str("No conversations found matching the specified filters.")
        ELSE formatOutput(response,
                          ListConversationsMarkdown(response, Val(conversations)),
                          params.response_format)

\* The handler from the resolution of makeApiRequest to the end of its try
\* block; data is the normalized response.
ListConversationsAfterAwait(params, data) ==
    LET itemsProp == GetProp(data, "items")
        conversations == OrElse(itemsProp, Arr(<<>>))
        response == ListConversationsWindow(params, data)
    IN  IF Threw(itemsProp) THEN itemsProp
        ELSE IF Len(Val(conversations)) = 0
        THEN Str("No conversations found matching the specified filters.")
        ELSE formatOutput(response,
                          ListConversationsMarkdown(response, Val(conversations)),
                          params.response_format)

(***************************************************************************)
(* tools/teams.ts: chorus_get_team_members                                 *)
(***************************************************************************)
\* a.slice(start, end) for 0 <= start <= end
Slice(a, start, end) ==
    SubSeq(a, start + 1, IF end < Len(a) THEN end ELSE Len(a))

\* The team members window counting only the sliced page as total.
GetTeamMembersWindowPageTotal(params, team) ==
    LET usersProp == GetProp(team, "users")
        allUsers == OrElse(usersProp, Arr(<<>>))
        start == params.offset
        end == start + params.limit
        pageUsers == Slice(Val(allUsers), start, end)
    IN  IF Threw(usersProp) \/ ~IsArray(allUsers) THEN NoCall
        ELSE buildPaginatedResponse(
                 Arr([i \in 1..Len(pageUsers) |->
                          Obj(<< <<"id", Str(JsString(pageUsers[i]))>> >>)]),
                 Len(pageUsers),
                 params.offset)

\* The team members window whose slice starts one position early.
GetTeamMembersWindowOverlap(params, team) ==
    LET usersProp == GetProp(team, "users")
        allUsers == OrElse(usersProp, Arr(<<>>))
        start == IF params.offset > 0 THEN params.offset - 1 ELSE 0
        end == params.offset + params.limit
        pageUsers == Slice(Val(allUsers), start, end)
    IN  IF Threw(usersProp) \/ ~IsArray(allUsers) THEN NoCall
        ELSE buildPaginatedResponse(
                 Arr([i \in 1..Len(pageUsers) |->
                          Obj(<< <<"id", Str(JsString(pageUsers[i]))>> >>)]),
                 Len(Val(allUsers)),
                 params.offset)

\* The window the handler builds over the team's embedded user IDs: the
\* slice [offset, offset + limit) of the list, the length of the whole list
\* as total, the caller's offset.  NoCall when the handler throws before it
\* builds one.
GetTeamMembersWindow(params, team) ==
    LET usersProp == GetProp(team, "users")
        allUsers == OrElse(usersProp, Arr(<<>>))
        start == params.offset
        end == start + params.limit
        pageUsers == Slice(Val(allUsers), start, end)
    IN  IF Threw(usersProp) \/ ~IsArray(allUsers) THEN NoCall
        ELSE buildPaginatedResponse(
                 Arr([i \in 1..Len(pageUsers) |->
                          Obj(<< <<"id", Str(JsString(pageUsers[i]))>> >>)]),
                 Len(Val(allUsers)),
                 params.offset)

GetTeamMembersAfterAwait(params, team) ==
    LET usersProp == GetProp(team, "users")
        allUsers == OrElse(usersProp, Arr(<<>>))
        teamName == OrElse(GetProp(team, "name"), Str("Unknown"))
        start == params.offset
        end == start + params.limit
        pageUsers == Slice(Val(allUsers), start, end)
        response == GetTeamMembersWindow(params, team)
    IN  IF Threw(usersProp) THEN usersProp
        ELSE IF ~IsArray(allUsers)
        THEN Throw(TypeError("allUsers.slice(...).map is not a function"))
        ELSE IF Len(Val(allUsers)) = 0
        THEN Str("No members found for this team.")
        ELSE formatOutput(
                 response,
                 Str(JoinLines(<< "# Team Members: " \o JsString(teamName), "",
                                  formatPaginationInfo(response), "" >>
                               \o [i \in 1..Len(pageUsers) |->
                                       "- User ID: " \o JsString(pageUsers[i])])),
                 params.response_format)

(***************************************************************************)
(* Pagination: the inputs are drawn in Init, the action applies the        *)
(* builder.                                                                *)
(***************************************************************************)
ItemList(n) == Arr([i \in 1..n |-> Str(ToString(i))])

PageIdle == [items |-> ItemList(0), total |-> 0, offset |-> 0, result |-> NoCall]
NormIdle == [body |-> Undefined, result |-> NoCall]
FlatIdle == [record |-> Undefined, once |-> NoCall, twice |-> NoCall]
ErrIdle == [error |-> Undefined, result |-> NoCall]
FmtIdle == [data |-> Undefined, markdown |-> "", format |-> "markdown", result |-> NoCall]
TruncIdle == [text |-> Str(""), once |-> NoCall, twice |-> NoCall]
\* A client that has not started to page through a list tool.
ClientIdle ==
    [pc |-> "idle", tool |-> "chorus_list_conversations", limit |-> 20,
     response_format |-> "markdown", offset |-> 0, pages |-> <<>>]

Tools == {"chorus_list_conversations", "chorus_get_team_members"}
IdleParams == [limit |-> 20, offset |-> 0, response_format |-> "markdown", team_id |-> "t1"]
CallIdle == [pc |-> "idle", tool |-> "chorus_list_conversations", params |-> IdleParams,
             transport |-> NoCall, window |-> NoCall, result |-> NoCall]

\* The invocations that can be in flight together.
Invocations == {1, 2}
CallsIdle == [i \in Invocations |-> CallIdle]

\* The McpServer before index.ts has registered anything.
ServerIdle == [step |-> 0, tools |-> {}, called |-> ""]
HandlerIdle ==
    /\ env = [CHORUS_API_KEY |-> Str("token")]
    /\ requests = <<>>
    /\ call = CallIdle

InitPagination ==
    /\ page \in [items : {ItemList(n) : n \in 0..MaxItems},
                 total : (-1)..MaxTotal,
                 offset : 0..MaxOffset,
                 result : {NoCall}]
    /\ norm = NormIdle
    /\ err = ErrIdle
    /\ fmt = FmtIdle
    /\ flat = FlatIdle
    /\ upstream = <<>>
    /\ calls = CallsIdle
    /\ server = ServerIdle
    /\ trunc = TruncIdle
    /\ client = ClientIdle
    /\ HandlerIdle

BuildPage ==
    /\ page.result = NoCall
    /\ page' = [page EXCEPT !.result =
                    buildPaginatedResponse(page.items, page.total, page.offset)]
    /\ UNCHANGED <<norm, flat, err, fmt, env, upstream, requests, call, calls, server, trunc, client>>

SpecPagination == InitPagination /\ [][BuildPage]_vars

PageCount == Len(Val(page.items))

\* C1: buildPaginatedResponse returns count = items.length,
\* has_more = (total > offset + count), and next_offset is present iff
\* has_more is true, in which case it equals offset + count.
WindowInvariant ==
    page.result # NoCall =>
        LET r == page.result
            hasMore == page.total > page.offset + PageCount
        IN  /\ GetProp(r, "count") = Num(PageCount)
            /\ GetProp(r, "has_more") = Bool(hasMore)
            /\ ("next_offset" \in Keys(Val(r))) <=> hasMore
            /\ hasMore => GetProp(r, "next_offset") = Num(page.offset + PageCount)

WindowWitness ==
    /\ page.result # NoCall
    /\ PageCount = 2
    /\ page.offset = 1
    /\ GetProp(page.result, "has_more") = Bool(TRUE)
    /\ GetProp(page.result, "next_offset") = Num(3)

\* C11 as stated: whenever total >= offset + items.length, the window has
\* has_more = false and no next_offset.
NoMoreWhenTotalAtLeastEnd ==
    (page.result # NoCall /\ page.total >= page.offset + PageCount) =>
        /\ GetProp(page.result, "has_more") = Bool(FALSE)
        /\ "next_offset" \notin Keys(Val(page.result))

\* C11 amended: whenever total <= offset + items.length (the window reaches
\* or passes the end of the result set), the window has has_more = false
\* and no next_offset.
NoMoreWhenTotalAtMostEnd ==
    (page.result # NoCall /\ page.total <= page.offset + PageCount) =>
        /\ GetProp(page.result, "has_more") = Bool(FALSE)
        /\ "next_offset" \notin Keys(Val(page.result))

\* The window ends exactly at the end of the result set (the unit test's
\* case: two items, total 2, offset 0).
NoMoreWhenTotalAtMostEndWitness ==
    /\ page.result # NoCall
    /\ PageCount = 2
    /\ page.offset = 0
    /\ page.total = 2
    /\ GetProp(page.result, "has_more") = Bool(FALSE)
    /\ "next_offset" \notin Keys(Val(page.result))

(***************************************************************************)
(* Normalization: response bodies as Transport can return them.            *)
(***************************************************************************)
Record(id, attributes) ==
    Obj(<< <<"id", Str(id)>>, <<"type", Str("conversation")>>,
           <<"attributes", attributes>> >>)

\* Elements of a `data` array: well-formed records, a record whose
\* attribute bag has its own `id`, a record without attribute bag, null and
\* a primitive.
Elements ==
    { Record("r1", Obj(<< <<"name", Str("A")>>,
                          <<"recording", Obj(<< <<"start_time", Str("2024-06-15T14:30:00Z")>>,
                                                <<"duration", Num(3720)>> >>)>>,
                          <<"participants", Arr(<< Obj(<< <<"name", Str("Alice")>> >>),
                                                   Obj(<< <<"name", Str("Bob")>> >>) >>)>>,
                          <<"status", Str("done")>> >>)),
      Record("r2", Obj(<<>>)),
      Record("r3", Obj(<< <<"id", Str("inner")>>, <<"name", Str("C")>> >>)),
      Obj(<< <<"id", Str("r4")>> >>),
      Null,
      Num(7) }

RECURSIVE SeqsUpTo(_, _)
SeqsUpTo(S, n) ==
    IF n = 0 THEN {<<>>}
    ELSE LET shorter == SeqsUpTo(S, n - 1)
         IN  shorter \cup {Append(q, e) : q \in {p \in shorter : Len(p) = n - 1}, e \in S}

Metas ==
    { Undefined,
      Null,
      Obj(<<>>),
      Obj(<< <<"page", Obj(<< <<"total", Num(10)>> >>)>> >>),
      Obj(<< <<"page", Obj(<< <<"total", Num(0)>>, <<"cursor", Str("c1")>> >>)>> >>),
      Obj(<< <<"page", Obj(<< <<"total", Num(-1)>> >>)>> >>) }

Envelope(data, meta) ==
    IF meta = Undefined THEN Obj(<< <<"data", data>> >>)
    ELSE Obj(<< <<"data", data>>, <<"meta", meta>> >>)

ListBodies == {Envelope(Arr(d), m) : d \in SeqsUpTo(Elements, MaxData), m \in Metas}

SingleBodies ==
    {Envelope(d, Undefined) : d \in (Elements \cup {Str("x"), Bool(TRUE), Obj(<<>>)})}

PlainBodies ==
    { Undefined, Null, Str(""), Num(3), Arr(<<>>),
      Arr(<< Obj(<< <<"id", Num(1)>> >>) >>),
      Obj(<<>>),
      Obj(<< <<"id", Str("u1")>>, <<"name", Str("N")>> >>),
      Obj(<< <<"items", Arr(<< Obj(<< <<"id", Str("p1")>> >>) >>)>>,
             <<"total", Num(4)>> >>),
      Obj(<< <<"items", Arr(<<>>)>>, <<"total", Num(4)>> >>) }

Bodies == ListBodies \cup SingleBodies \cup PlainBodies

InitNormalize ==
    /\ norm \in [body : Bodies, result : {NoCall}]
    /\ page = PageIdle
    /\ err = ErrIdle
    /\ fmt = FmtIdle
    /\ flat = FlatIdle
    /\ upstream = <<>>
    /\ calls = CallsIdle
    /\ server = ServerIdle
    /\ trunc = TruncIdle
    /\ client = ClientIdle
    /\ HandlerIdle

Normalize ==
    /\ norm.result = NoCall
    /\ norm' = [norm EXCEPT !.result = normalizeResponse(norm.body)]
    /\ UNCHANGED <<page, flat, err, fmt, env, upstream, requests, call, calls, server, trunc, client>>

SpecNormalize == InitNormalize /\ [][Normalize]_vars

NormData == GetProp(norm.body, "data")

\* The body is an envelope: an object with a `data` field.
HasData == Tag(norm.body) = "obj" /\ "data" \in Keys(Val(norm.body))

\* C2: in every record produced by flattening, for single and list
\* envelopes, `id` equals the record's own identifier, even when the
\* attribute bag also has a key `id`.
FlattenedIdIsRecordId ==
    (norm.result # NoCall /\ ~Threw(norm.result) /\ HasData) =>
        /\ isJsonApiSingle(norm.body) = Bool(TRUE) =>
               GetProp(norm.result, "id") = GetProp(NormData, "id")
        /\ isJsonApiList(norm.body) = Bool(TRUE) =>
               \A i \in 1..Len(Val(NormData)) :
                   GetProp(Val(GetProp(norm.result, "items"))[i], "id")
                       = GetProp(Val(NormData)[i], "id")

\* C3: a collection envelope with N >= 1 record elements normalizes to a
\* collection of exactly N records in input order, items[i].id = data[i].id.
CollectionKeepsRecords ==
    (/\ norm.result # NoCall
     /\ HasData
     /\ IsArray(NormData)
     /\ Len(Val(NormData)) >= 1
     /\ \A i \in 1..Len(Val(NormData)) :
            /\ Tag(Val(NormData)[i]) = "obj"
            /\ "attributes" \in Keys(Val(Val(NormData)[i]))) =>
        /\ ~Threw(norm.result)
        /\ Tag(norm.result) = "obj"
        /\ IsArray(GetProp(norm.result, "items"))
        /\ Len(Val(GetProp(norm.result, "items"))) = Len(Val(NormData))
        /\ \A i \in 1..Len(Val(NormData)) :
               GetProp(Val(GetProp(norm.result, "items"))[i], "id")
                   = GetProp(Val(NormData)[i], "id")

\* C4: normalizeResponse never raises, whatever JSON value Transport
\* returned.
NormalizeNeverRaises ==
    norm.result # NoCall => ~Threw(norm.result)

\* C12: a body whose `data` is an empty array normalizes to the collection
\* {items: [], total: 0}, whatever `meta` the body carries.
EmptyDataIsEmptyCollection ==
    (norm.result # NoCall /\ HasData /\ NormData = Arr(<<>>)) =>
        norm.result = Obj(<< <<"items", Arr(<<>>)>>, <<"total", Num(0)>> >>)

\* An empty `data` array next to a meta that announces ten results.
EmptyDataIsEmptyCollectionWitness ==
    /\ norm.result # NoCall
    /\ HasData
    /\ NormData = Arr(<<>>)
    /\ OptProp(OptProp(GetProp(norm.body, "meta"), "page"), "total") = Num(10)
    /\ GetProp(norm.result, "total") = Num(0)

\* C13: a value that has no `data` field (plain object, array, primitive,
\* null or undefined) is returned unchanged.
NoDataIsIdentity ==
    (norm.result # NoCall /\ ~HasData) => norm.result = norm.body

\* Each kind of value without `data` has been normalized: here a bare
\* array of one object, returned as it came.
NoDataIsIdentityWitness ==
    /\ norm.result # NoCall
    /\ ~HasData
    /\ IsArray(norm.body)
    /\ Len(Val(norm.body)) = 1
    /\ norm.result = norm.body

\* A collection envelope: `data` is a non-empty array whose elements each
\* carry an attribute bag.
IsCollectionEnvelope ==
    /\ HasData
    /\ IsArray(NormData)
    /\ Len(Val(NormData)) >= 1
    /\ \A i \in 1..Len(Val(NormData)) :
           /\ Tag(Val(NormData)[i]) = "obj"
           /\ "attributes" \in Keys(Val(Val(NormData)[i]))

\* body.meta.page.total, undefined when any link of the chain is missing.
MetaPageTotal ==
    LET meta == GetProp(norm.body, "meta")
        metaPage == IF Tag(meta) = "obj" THEN GetProp(meta, "page") ELSE Undefined
    IN  IF Tag(metaPage) = "obj" THEN GetProp(metaPage, "total") ELSE Undefined

\* C14: for every collection envelope, total is meta.page.total when that
\* field is present (0 included) and the number of flattened items when it
\* is absent.
TotalFromMetaOrCount ==
    (norm.result # NoCall /\ IsCollectionEnvelope) =>
        /\ ~Threw(norm.result)
        /\ Len(Val(GetProp(norm.result, "items"))) = Len(Val(NormData))
        /\ GetProp(norm.result, "total") =
               IF MetaPageTotal # Undefined THEN MetaPageTotal
               ELSE Num(Len(Val(NormData)))

\* Two records next to meta.page.total = 0: the total is 0, not 2.
TotalFromMetaOrCountWitness ==
    /\ norm.result # NoCall
    /\ IsCollectionEnvelope
    /\ Len(Val(NormData)) = 2
    /\ MetaPageTotal = Num(0)
    /\ GetProp(norm.result, "total") = Num(0)

\* The body is a single-record envelope: `data` is a non-null, non-array
\* object with an `attributes` field.
IsSingleEnvelope ==
    /\ HasData
    /\ Tag(NormData) = "obj"
    /\ "attributes" \in Keys(Val(NormData))

\* C15: a single-record envelope normalizes to one flat record made of the
\* record's id and its attributes: its keys are `id` and the attribute
\* names, `id` is the record's identifier, every other key has the
\* attribute's value; it is neither a collection nor the unchanged body.
SingleEnvelopeIsFlatRecord ==
    (norm.result # NoCall /\ IsSingleEnvelope) =>
        LET attributes == OwnProps(GetProp(NormData, "attributes"))
        IN  /\ ~Threw(norm.result)
            /\ Tag(norm.result) = "obj"
            /\ Keys(Val(norm.result)) = {"id"} \cup Keys(attributes)
            /\ GetProp(norm.result, "id") = GetProp(NormData, "id")
            /\ \A k \in Keys(attributes) \ {"id"} :
                   GetProp(norm.result, k) = Lookup(attributes, k)
            /\ "items" \notin Keys(Val(norm.result))
            /\ norm.result # norm.body

(***************************************************************************)
(* Flattening applied to its own result: the records are drawn in Init,    *)
(* the actions apply flattenRecord once and then once more.                *)
(***************************************************************************)
\* Values of the `attributes` key inside an attribute bag.
NestedBags ==
    { Null,
      Obj(<<>>),
      Obj(<< <<"id", Str("deep")>> >>),
      Obj(<< <<"name", Str("D")>> >>) }

\* An object with the given optional properties, absent when undefined.
Bag(id, name, attributes) ==
    Obj(SelectSeq(<< <<"id", id>>, <<"name", name>>, <<"attributes", attributes>> >>,
                  IsDefinedProp))

AttributeBags ==
    {Bag(id, name, attributes) : id \in {Undefined, Str("inner")},
                                 name \in {Undefined, Str("C")},
                                 attributes \in {Undefined} \cup NestedBags}

\* JSON:API records: an identifier (a string, a number, or none) and an
\* attribute bag (an object, null, or none).
Records ==
    {Bag(id, Undefined, attributes) : id \in {Undefined, Str("r1"), Num(7)},
                                      attributes \in {Undefined, Null} \cup AttributeBags}

InitFlatten ==
    /\ flat \in [record : Records, once : {NoCall}, twice : {NoCall}]
    /\ upstream = <<>>
    /\ calls = CallsIdle
    /\ server = ServerIdle
    /\ trunc = TruncIdle
    /\ client = ClientIdle
    /\ page = PageIdle
    /\ norm = NormIdle
    /\ err = ErrIdle
    /\ fmt = FmtIdle
    /\ HandlerIdle

FlattenOnce ==
    /\ flat.once = NoCall
    /\ flat' = [flat EXCEPT !.once = flattenRecord(flat.record)]
    /\ UNCHANGED <<page, norm, err, fmt, env, upstream, requests, call, calls, server, trunc, client>>

FlattenAgain ==
    /\ flat.once # NoCall
    /\ flat.twice = NoCall
    /\ flat' = [flat EXCEPT !.twice = flattenRecord(flat.once)]
    /\ UNCHANGED <<page, norm, err, fmt, env, upstream, requests, call, calls, server, trunc, client>>

NextFlatten == FlattenOnce \/ FlattenAgain

SpecFlatten == InitFlatten /\ [][NextFlatten]_vars

\* C16: flattening is idempotent on the identifier: for every record r,
\* whatever its attribute bag contains,
\* flattenRecord(flattenRecord(r)).id = flattenRecord(r).id.
FlattenIdempotentOnId ==
    flat.twice # NoCall =>
        GetProp(flat.twice, "id") = GetProp(flat.once, "id")

(***************************************************************************)
(* Error classification: the values a handler can catch.                   *)
(***************************************************************************)
Statuses == {302, 400, 401, 403, 404, 418, 429, 499, 500, 503}

ResponseDatas ==
    { Obj(<<>>),
      Obj(<< <<"message", Str("Invalid date format")>> >>),
      Obj(<< <<"error", Str("bad filter")>> >>),
      Obj(<< <<"message", Null>>, <<"error", Str("fallback")>> >>),
      Obj(<< <<"message", Num(0)>> >>),
      Obj(<< <<"message", Obj(<< <<"detail", Str("d")>> >>)>> >>),
      Arr(<< Str("e1"), Str("e2") >>),
      Str("Service Unavailable"),
      Null }

Codes == {Undefined, Str("ECONNABORTED"), Str("ECONNREFUSED"),
          Str("ERR_BAD_REQUEST"), Str("ERR_NETWORK")}

ThrownValues ==
    {AxiosError(Response(st, d), c, "Request failed with status code " \o ToString(st)) :
         st \in Statuses, d \in ResponseDatas, c \in Codes}
    \cup {AxiosError(NoResponse, c, m) :
              c \in Codes, m \in {"timeout of 30000ms exceeded", "Network Error"}}
    \cup {Error("CHORUS_API_KEY environment variable is not set."),
          Error("Something unexpected"),
          TypeError("Cannot read properties of null")}
    \cup {Str("string error"), Num(0), Null, Undefined, Obj(<<>>),
          Arr(<< Num(1), Null, Str("x") >>)}

InitError ==
    /\ err \in [error : ThrownValues, result : {NoCall}]
    /\ page = PageIdle
    /\ norm = NormIdle
    /\ fmt = FmtIdle
    /\ flat = FlatIdle
    /\ upstream = <<>>
    /\ calls = CallsIdle
    /\ server = ServerIdle
    /\ trunc = TruncIdle
    /\ client = ClientIdle
    /\ HandlerIdle

Classify ==
    /\ err.result = NoCall
    /\ err' = [err EXCEPT !.result = handleApiError(err.error)]
    /\ UNCHANGED <<page, norm, flat, fmt, env, upstream, requests, call, calls, server, trunc, client>>

SpecError == InitError /\ [][Classify]_vars

\* The text by which each error category is recognised.
CategoryMarker ==
    [ BadRequest |-> "Error: Bad request. ",
      AuthFailure |-> "Error: Authentication failed.",
      Forbidden |-> "Error: Access denied.",
      NotFound |-> "Error: Resource not found.",
      RateLimited |-> "Error: Rate limit exceeded.",
      ServerError |-> "Error: Chorus API server error (",
      UnknownStatus |-> "Error: API request failed with status ",
      Timeout |-> "Error: Request timed out.",
      ConnectionRefused |-> "Error: Could not connect to the Chorus API.",
      Unexpected |-> "Error: Unexpected error occurred: " ]

Categories == DOMAIN CategoryMarker

CategoriesOf(text) == {c \in Categories : StartsWith(text, CategoryMarker[c])}

\* C5: handleApiError is total: for every thrown value it returns exactly
\* one message string, of exactly one category, and never throws.
ClassifierTotal ==
    err.result # NoCall =>
        /\ ~Threw(err.result)
        /\ Tag(err.result) = "str"
        /\ Cardinality(CategoriesOf(Val(err.result))) = 1

ClassifierTotalWitness ==
    /\ err.result # NoCall
    /\ ~InstanceofError(err.error)
    /\ err.error = Str("string error")
    /\ CategoriesOf(Val(err.result)) = {"Unexpected"}

\* The category the classification table assigns to a thrown value.
ErrStatus == Val(Val(err.error)[1])[1]
TableCategory ==
    IF isAxiosError(err.error) /\ Val(err.error)[1] # NoResponse
    THEN CASE ErrStatus = 400 -> "BadRequest"
           [] ErrStatus = 401 -> "AuthFailure"
           [] ErrStatus = 403 -> "Forbidden"
           [] ErrStatus = 404 -> "NotFound"
           [] ErrStatus = 429 -> "RateLimited"
           [] ErrStatus >= 500 -> "ServerError"
           [] OTHER -> "UnknownStatus"
    ELSE IF isAxiosError(err.error) /\ Val(err.error)[2] = Str("ECONNABORTED")
    THEN "Timeout"
    ELSE IF isAxiosError(err.error) /\ Val(err.error)[2] = Str("ECONNREFUSED")
    THEN "ConnectionRefused"
    ELSE "Unexpected"

\* C6: an Axios error with a response is classified by status alone,
\* whatever its code (server error and generic failure name the status);
\* without a response it is timeout for ECONNABORTED and connection failure
\* for ECONNREFUSED; every other input is the unexpected-error category
\* containing the stringified cause.
ClassifierTable ==
    err.result # NoCall =>
        /\ Tag(err.result) = "str"
        /\ CategoriesOf(Val(err.result)) = {TableCategory}
        /\ TableCategory \in {"ServerError", "UnknownStatus"} =>
               Contains(Val(err.result), ToString(ErrStatus))
        /\ TableCategory = "Unexpected" =>
               EndsWith(Val(err.result),
                        IF InstanceofError(err.error) THEN ErrorMessage(err.error)
                        ELSE JsString(err.error))

ClassifierTableWitness ==
    /\ err.result # NoCall
    /\ isAxiosError(err.error)
    /\ Val(err.error)[1] # NoResponse
    /\ ErrStatus = 503
    /\ Val(err.error)[2] = Str("ECONNABORTED")
    /\ CategoriesOf(Val(err.result)) = {"ServerError"}

(***************************************************************************)
(* Formatting: canonical values, renderer outcomes and response formats.   *)
(***************************************************************************)
\* 'x'.repeat(n)
RECURSIVE Repeat(_, _)
Repeat(x, n) ==
    IF n = 0 THEN ""
    ELSE IF n % 2 = 0 THEN LET half == Repeat(x, n \div 2) IN half \o half
    ELSE x \o Repeat(x, n - 1)

\* A text of exactly n characters.
Text(n) == SubSeq(Repeat("abc", n \div 3 + 1), 1, n)

Deltas == (0 - MaxDelta)..MaxDelta

\* What calling the markdown renderer yields.
Renderings ==
    {Str(""), Str("# Title\nContent")}
    \cup {Str(Text(CHARACTER_LIMIT + d)) : d \in Deltas}
    \cup {Str(Text(CHARACTER_LIMIT + 1000)),
          Throw(TypeError("conversations is not iterable"))}

\* The results of normalizeResponse, windows built on them, and values
\* whose JSON rendering is at and over the budget.
CanonicalValues ==
    {v \in {normalizeResponse(b) : b \in Bodies} : ~Threw(v)}
    \cup {buildPaginatedResponse(ItemList(n), 10, 0) : n \in 0..2}
    \cup {Str(Text(CHARACTER_LIMIT - 2 + d)) : d \in Deltas}
    \cup {buildPaginatedResponse(
              Arr(<< Obj(<< <<"id", Str("r1")>>,
                            <<"transcript", Str(Text(CHARACTER_LIMIT))>> >>) >>),
              1, 0)}

ResponseFormats == {"markdown", "json"}

InitFormat ==
    /\ fmt \in [data : CanonicalValues, markdown : Renderings,
                format : ResponseFormats, result : {NoCall}]
    /\ page = PageIdle
    /\ norm = NormIdle
    /\ err = ErrIdle
    /\ flat = FlatIdle
    /\ upstream = <<>>
    /\ calls = CallsIdle
    /\ server = ServerIdle
    /\ trunc = TruncIdle
    /\ client = ClientIdle
    /\ HandlerIdle

Format ==
    /\ fmt.result = NoCall
    /\ fmt' = [fmt EXCEPT !.result = formatOutput(fmt.data, fmt.markdown, fmt.format)]
    /\ UNCHANGED <<page, norm, flat, err, env, upstream, requests, call, calls, server, trunc, client>>

SpecFormat == InitFormat /\ [][Format]_vars

\* The rendering formatOutput hands to truncateResponse.
Rendering == IF fmt.format = "markdown" THEN fmt.markdown ELSE JSONStringify(fmt.data)

Returned == fmt.result # NoCall /\ Tag(fmt.result) = "str"

\* C8 as stated: every string returned by formatOutput has length
\* <= CHARACTER_LIMIT.
OutputWithinLimit ==
    Returned => Len(Val(fmt.result)) <= CHARACTER_LIMIT

\* C8 as amended: every string returned by formatOutput has length
\* <= CHARACTER_LIMIT plus the length of the truncation notice.
OutputWithinLimitPlusNotice ==
    Returned => Len(Val(fmt.result)) <= CHARACTER_LIMIT + Len(TruncationNotice)

OutputWithinLimitPlusNoticeWitness ==
    /\ Returned
    /\ Len(Val(Rendering)) = CHARACTER_LIMIT + 1000
    /\ Len(Val(fmt.result)) = CHARACTER_LIMIT + Len(TruncationNotice)

\* C9: a rendering longer than CHARACTER_LIMIT comes back as its first
\* CHARACTER_LIMIT characters followed by the truncation notice, in
\* markdown and in JSON mode alike.
TruncationCutsAtLimit ==
    (/\ fmt.result # NoCall
     /\ Tag(Rendering) = "str"
     /\ Len(Val(Rendering)) > CHARACTER_LIMIT) =>
        /\ Returned
        /\ Len(Val(fmt.result)) <= CHARACTER_LIMIT + Len(TruncationNotice)
        /\ EndsWith(Val(fmt.result), TruncationNotice)
        /\ SubSeq(Val(fmt.result), 1, CHARACTER_LIMIT)
               = SubSeq(Val(Rendering), 1, CHARACTER_LIMIT)
        /\ Len(Val(fmt.result)) = CHARACTER_LIMIT + Len(TruncationNotice)

TruncationCutsAtLimitWitness ==
    /\ Returned
    /\ fmt.format = "json"
    /\ Len(Val(Rendering)) = CHARACTER_LIMIT + 1
    /\ EndsWith(Val(fmt.result), TruncationNotice)
    /\ Threw(JSONParse(Val(fmt.result)))

\* C10: in JSON mode, a canonical value whose rendering is within the
\* budget comes back as text that parses to a value equal to the input,
\* and no renderer outcome changes that text.
StructuredRoundTrip ==
    (/\ fmt.result # NoCall
     /\ fmt.format = "json"
     /\ Tag(JSONStringify(fmt.data)) = "str"
     /\ Len(Val(JSONStringify(fmt.data))) <= CHARACTER_LIMIT) =>
        /\ Returned
        /\ ToEqual(JSONParse(Val(fmt.result)), fmt.data)
        /\ \A m \in Renderings : formatOutput(fmt.data, m, "json") = fmt.result

StructuredRoundTripWitness ==
    /\ Returned
    /\ fmt.format = "json"
    /\ Threw(fmt.markdown)
    /\ Tag(fmt.data) = "obj"
    /\ "items" \in Keys(Val(fmt.data))
    /\ Len(Val(GetProp(fmt.data, "items"))) = 2
    /\ GetProp(fmt.data, "cursor") = Undefined
    /\ ToEqual(JSONParse(Val(fmt.result)), fmt.data)

(***************************************************************************)
(* One tool invocation: the handler runs up to its await of axios, the     *)
(* Transport settles the request, the handler runs to its return.          *)
(***************************************************************************)
Limits == {1, 2, 20}

ParamsSet ==
    [limit : Limits, offset : 0..MaxOffset, response_format : ResponseFormats,
     team_id : {"t1"}]

Environments == {[CHORUS_API_KEY |-> k] : k \in {Str("token"), Str(""), Undefined}}

\* A team record embedding n user IDs.
TeamBody(n) ==
    Envelope(Obj(<< <<"id", Str("t1")>>, <<"type", Str("team")>>,
                    <<"attributes",
                      Obj(<< <<"name", Str("Sales")>>,
                             <<"users", Arr([i \in 1..n |-> Num(100 + i)])>> >>)>> >>),
             Undefined)

\* Bodies on which a step after normalization fails: a conversation whose
\* participants are not a list, a team whose users are not a list.
BrokenBodies ==
    { Envelope(Arr(<< Record("r5", Obj(<< <<"participants", Num(5)>> >>)) >>), Undefined),
      Envelope(Arr(<< Record("r6", Obj(<< <<"participants", Arr(<< Null >>)>> >>)) >>),
               Undefined),
      Envelope(Obj(<< <<"id", Str("t2")>>, <<"type", Str("team")>>,
                      <<"attributes", Obj(<< <<"users", Num(3)>> >>)>> >>), Undefined) }

TransportBodies == Bodies \cup {TeamBody(n) : n \in 0..MaxUsers} \cup BrokenBodies

\* What axios rejects with.
TransportErrors ==
    {AxiosError(Response(st, d), Str("ERR_BAD_REQUEST"),
                "Request failed with status code " \o ToString(st)) :
         st \in Statuses,
         d \in {Obj(<<>>), Obj(<< <<"message", Str("Invalid date format")>> >>)}}
    \cup {AxiosError(NoResponse, Str("ECONNABORTED"), "timeout of 30000ms exceeded"),
          AxiosError(NoResponse, Str("ECONNREFUSED"), "connect ECONNREFUSED"),
          AxiosError(NoResponse, Str("ERR_NETWORK"), "Network Error")}

Init ==
    /\ env \in Environments
    /\ requests = <<>>
    /\ call = CallIdle
    /\ page = PageIdle
    /\ norm = NormIdle
    /\ err = ErrIdle
    /\ fmt = FmtIdle
    /\ flat = FlatIdle
    /\ upstream = <<>>
    /\ calls = CallsIdle
    /\ server = ServerIdle
    /\ trunc = TruncIdle
    /\ client = ClientIdle

\* The request a handler passes to makeApiRequest.
HandlerRequest(tool, params, apiKey) ==
    IF tool = "chorus_list_conversations"
    THEN RequestConfig("conversations", "GET",
                       Obj(<< <<"page[size]", Num(params.limit)>> >>), apiKey)
    ELSE RequestConfig("teams/" \o params.team_id, "GET", Undefined, apiKey)

\* The pagination window the handler builds from the resolved data.
Window(tool, params, data) ==
    IF tool = "chorus_list_conversations"
    THEN ListConversationsWindow(params, data)
    ELSE GetTeamMembersWindow(params, data)

\* The handler's try block after makeApiRequest resolved with data.
AfterAwait(tool, params, data) ==
    IF tool = "chorus_list_conversations"
    THEN ListConversationsAfterAwait(params, data)
    ELSE GetTeamMembersAfterAwait(params, data)

\* The handler is called: makeApiRequest reads the API key and either
\* throws, which the handler catches and returns as text, or awaits axios.
Invoke(tool, params) ==
    /\ call.pc = "idle"
    /\ LET apiKey == getApiKey(env)
       IN  IF Threw(apiKey)
           THEN /\ call' = [call EXCEPT !.pc = "done", !.tool = tool, !.params = params,
                                        !.result = Catch(apiKey)]
                /\ UNCHANGED requests
           ELSE /\ call' = [call EXCEPT !.pc = "awaiting", !.tool = tool, !.params = params]
                /\ requests' = Append(requests, HandlerRequest(tool, params, apiKey))
    /\ UNCHANGED <<page, norm, flat, err, fmt, env, upstream, calls, server, trunc, client>>

\* axios resolves: makeApiRequest normalizes response.data and the handler
\* runs to its return.
TransportResolve(body) ==
    /\ call.pc = "awaiting"
    /\ LET data == normalizeResponse(body)
           outcome == IF Threw(data) THEN data
                      ELSE AfterAwait(call.tool, call.params, data)
           response == IF Threw(data) THEN NoCall
                       ELSE Window(call.tool, call.params, data)
       IN  call' = [call EXCEPT !.pc = "done",
                                !.transport = <<"resolved", body>>,
                                !.window = response,
                                !.result = Catch(outcome)]
    /\ UNCHANGED <<page, norm, flat, err, fmt, env, upstream, requests, calls, server, trunc, client>>

\* A handler that answers the first rejection by sending its request once
\* more.
TransportRejectRetry(error) ==
    /\ call.pc = "awaiting"
    /\ IF Len(requests) < 2
       THEN /\ requests' = Append(requests, requests[Len(requests)])
            /\ call' = [call EXCEPT !.transport = <<"rejected", error>>]
       ELSE /\ requests' = requests
            /\ call' = [call EXCEPT !.pc = "done",
                                    !.transport = <<"rejected", error>>,
                                    !.result = Catch(Throw(error))]
    /\ UNCHANGED <<page, norm, flat, err, fmt, env, upstream, calls, server, trunc, client>>

\* axios rejects: the exception leaves makeApiRequest and reaches the
\* handler's catch clause.
TransportReject(error) ==
    /\ call.pc = "awaiting"
    /\ call' = [call EXCEPT !.pc = "done",
                            !.transport = <<"rejected", error>>,
                            !.result = Catch(Throw(error))]
    /\ UNCHANGED <<page, norm, flat, err, fmt, env, upstream, requests, calls, server, trunc, client>>

Next ==
    \/ \E tool \in Tools, params \in ParamsSet : Invoke(tool, params)
    \/ \E body \in TransportBodies : TransportResolve(body)
    \/ \E error \in TransportErrors : TransportReject(error)

Spec == Init /\ [][Next]_vars

\* The failure of a finished invocation, read off what happened to it: the
\* missing API key, the rejection of the Transport call, or the exception
\* of a step after the Transport call; NoCall when nothing failed.
InvocationFailure ==
    IF call.transport = NoCall THEN Val(getApiKey(env))
    ELSE IF call.transport[1] = "rejected" THEN call.transport[2]
    ELSE LET data == normalizeResponse(call.transport[2])
             outcome == IF Threw(data) THEN data
                        ELSE AfterAwait(call.tool, call.params, data)
         IN  IF Threw(outcome) THEN Val(outcome) ELSE NoCall

\* The content of a handler's return value is one text item.
SingleTextItem(result) ==
    /\ Tag(result) = "obj"
    /\ Keys(Val(result)) = {"content"}
    /\ IsArray(GetProp(result, "content"))
    /\ Len(Val(GetProp(result, "content"))) = 1
    /\ GetProp(Val(GetProp(result, "content"))[1], "type") = Str("text")
    /\ Tag(GetProp(Val(GetProp(result, "content"))[1], "text")) = "str"

ResultText == GetProp(Val(GetProp(call.result, "content"))[1], "text")

\* C7: when the Transport call or a later step of the handler fails, the
\* handler still resolves with a single text content item whose text is
\* handleApiError's message for that failure; no exception leaves the
\* handler.
HandlerReturnsClassifiedText ==
    call.pc = "done" =>
        /\ ~Threw(call.result)
        /\ SingleTextItem(call.result)
        /\ InvocationFailure # NoCall =>
               /\ ResultText = handleApiError(InvocationFailure)
               /\ Cardinality(CategoriesOf(Val(ResultText))) = 1

HandlerReturnsClassifiedTextWitness ==
    /\ call.pc = "done"
    /\ call.tool = "chorus_list_conversations"
    /\ call.transport = <<"resolved", Envelope(Arr(<< Null >>), Undefined)>>
    /\ SingleTextItem(call.result)
    /\ StartsWith(Val(ResultText), "Error: Unexpected error occurred: Cannot use 'in' operator")

(***************************************************************************)
(* chorus_get_team_members: the window over the embedded user IDs.         *)
(***************************************************************************)
\* The team record the finished invocation received, after normalization.
ReceivedTeam == normalizeResponse(call.transport[2])

\* A chorus_get_team_members invocation finished on a team record that
\* embeds a list of user IDs.
TeamMembersServed ==
    /\ call.pc = "done"
    /\ call.tool = "chorus_get_team_members"
    /\ call.transport # NoCall
    /\ call.transport[1] = "resolved"
    /\ Tag(ReceivedTeam) = "obj"
    /\ IsArray(GetProp(ReceivedTeam, "users"))

Min(a, b) == IF a < b THEN a ELSE b
Max(a, b) == IF a > b THEN a ELSE b

UpstreamResults(n) ==
    [i \in 1..n |-> Record("c" \o ToString(i),
                           Obj(<< <<"name", Str("Call " \o ToString(i))>> >>))]

\* The position a query asks the upstream to start from: the value of an
\* offset parameter when the query carries one, the beginning otherwise.
QueryPosition(params) ==
    IF Tag(params) = "obj" /\ "page[offset]" \in Keys(Val(params))
    THEN Val(GetProp(params, "page[offset]"))
    ELSE 0

\* The upstream's answer to GET /conversations: page[size] results from the
\* position the query names, and the size of the full result set.
UpstreamPage(config, results) ==
    LET size == Val(GetProp(config.params, "page[size]"))
        position == QueryPosition(config.params)
    IN  Envelope(Arr(Slice(results, position, position + size)),
                 Obj(<< <<"page", Obj(<< <<"total", Num(Len(results))>> >>)>> >>))

InitUpstream ==
    /\ upstream \in {UpstreamResults(n) : n \in 0..MaxUpstream}
    /\ calls = CallsIdle
    /\ server = ServerIdle
    /\ trunc = TruncIdle
    /\ client = ClientIdle
    /\ env = [CHORUS_API_KEY |-> Str("token")]
    /\ requests = <<>>
    /\ call = CallIdle
    /\ page = PageIdle
    /\ norm = NormIdle
    /\ flat = FlatIdle
    /\ err = ErrIdle
    /\ fmt = FmtIdle

InvokeList == \E params \in ParamsSet : Invoke("chorus_list_conversations", params)

\* The upstream answers the request in flight.
UpstreamServe ==
    /\ call.pc = "awaiting"
    /\ TransportResolve(UpstreamPage(requests[Len(requests)], upstream))

NextUpstream == InvokeList \/ UpstreamServe

SpecUpstream == InitUpstream /\ [][NextUpstream]_vars

\* A chorus_list_conversations invocation was answered by the upstream.
ListServed ==
    /\ call.pc = "done"
    /\ call.tool = "chorus_list_conversations"
    /\ call.transport # NoCall
    /\ call.transport[1] = "resolved"

\* C18: offset is the number of results skipped: a call with offset = k
\* and limit = L returns the upstream results at positions k .. k+L-1 of
\* the full result set, and the window (count, has_more, next_offset)
\* describes the results that remain after the returned page.
OffsetSkipsResults ==
    ListServed =>
        LET k == call.params.offset
            L == call.params.limit
            N == Len(upstream)
            expected == Slice(upstream, k, k + L)
            window == call.window
            remain == N > k + Len(expected)
        IN  /\ window # NoCall
            /\ GetProp(window, "items") =
                   Arr([i \in 1..Len(expected) |-> flattenRecord(expected[i])])
            /\ GetProp(window, "count") = Num(Len(expected))
            /\ GetProp(window, "has_more") = Bool(remain)
            /\ remain => GetProp(window, "next_offset") = Num(k + Len(expected))

(***************************************************************************)
(* Requests issued by one invocation.                                      *)
(***************************************************************************)
\* C19: one handler invocation issues at most one Transport request; the
\* response is awaited before any normalization or formatting (while the
\* request is in flight there is neither window nor result); once the
\* request is issued, and in particular after a Transport failure, no
\* further request is issued before the handler returns its text.
OneRequestPerInvocation ==
    [][/\ Len(requests') <= 1
       /\ call.pc # "idle" => requests' = requests
       /\ call'.pc = "awaiting" =>
              /\ Len(requests') = 1
              /\ call'.window = NoCall
              /\ call'.result = NoCall
       /\ (call'.pc = "done" /\ call'.transport # NoCall) =>
              call.pc = "awaiting"]_vars

\* A Transport failure answered with a text, after exactly one request.
OneRequestPerInvocationWitness ==
    /\ call.pc = "done"
    /\ call.transport # NoCall
    /\ call.transport[1] = "rejected"
    /\ Len(requests) = 1
    /\ SingleTextItem(call.result)
    /\ StartsWith(Val(ResultText), "Error: ")

(***************************************************************************)
(* The credential.                                                         *)
(***************************************************************************)
\* CHORUS_API_KEY is absent from the environment (unset or empty).
ApiKeyAbsent == ~Truthy(env.CHORUS_API_KEY)

\* C20: when CHORUS_API_KEY is absent at call time, makeApiRequest fails
\* with an error naming CHORUS_API_KEY, which the handler returns as its
\* text, and no HTTP request is issued for that call.
NoRequestWithoutApiKey ==
    ApiKeyAbsent =>
        /\ requests = <<>>
        /\ call.pc # "awaiting"
        /\ call.pc = "done" =>
               /\ call.transport = NoCall
               /\ SingleTextItem(call.result)
               /\ Contains(Val(ResultText), "CHORUS_API_KEY")

\* The variable is unset, the handler was called and has returned.
NoRequestWithoutApiKeyWitness ==
    /\ env.CHORUS_API_KEY = Undefined
    /\ call.pc = "done"
    /\ requests = <<>>
    /\ Contains(Val(ResultText), "CHORUS_API_KEY environment variable is not set")

(***************************************************************************)
(* Windows built by chorus_list_conversations from what Transport reports. *)
(***************************************************************************)
\* The list handler built a window and rendered it (it did not return its
\* fixed empty-result text, and nothing failed).
ListWindowRendered ==
    /\ ListServed
    /\ call.window # NoCall
    /\ InvocationFailure = NoCall
    /\ Val(GetProp(call.window, "count")) >= 1

\* C21: every window that a list handler builds and renders has
\* offset >= 0 and total >= 0, whatever total the upstream response
\* reports.
WindowTotalNonNegative ==
    ListWindowRendered =>
        /\ Val(GetProp(call.window, "offset")) >= 0
        /\ Val(GetProp(call.window, "total")) >= 0

(***************************************************************************)
(* Two invocations in flight together.  Each handler call is an async      *)
(* function with its own locals; the event loop interleaves the calls at   *)
(* their await of makeApiRequest.                                          *)
(***************************************************************************)
ConcurrentParams ==
    [limit : {1, 2}, offset : {0, 1}, response_format : ResponseFormats,
     team_id : {"t1"}]

ConcurrentBodies ==
    { Envelope(Arr(<< Record("r2", Obj(<<>>)),
                      Record("r3", Obj(<< <<"id", Str("inner")>>, <<"name", Str("C")>> >>)) >>),
               Obj(<< <<"page", Obj(<< <<"total", Num(10)>> >>)>> >>)),
      Envelope(Arr(<<>>), Undefined),
      Envelope(Arr(<< Null >>), Undefined),
      TeamBody(0),
      TeamBody(2) }

ConcurrentErrors ==
    { AxiosError(Response(404, Obj(<<>>)), Str("ERR_BAD_REQUEST"),
                 "Request failed with status code 404"),
      AxiosError(NoResponse, Str("ECONNABORTED"), "timeout of 30000ms exceeded") }

InitConcurrent ==
    /\ env \in Environments
    /\ requests = <<>>
    /\ calls = CallsIdle
    /\ server = ServerIdle
    /\ trunc = TruncIdle
    /\ client = ClientIdle
    /\ call = CallIdle
    /\ page = PageIdle
    /\ norm = NormIdle
    /\ flat = FlatIdle
    /\ err = ErrIdle
    /\ fmt = FmtIdle
    /\ upstream = <<>>

\* Invocation i is called and runs to its await, or to its return when
\* the API key is missing.
InvokeAt(i, tool, params) ==
    /\ calls[i].pc = "idle"
    /\ LET apiKey == getApiKey(env)
       IN  IF Threw(apiKey)
           THEN /\ calls' = [calls EXCEPT ![i] =
                                [@ EXCEPT !.pc = "done", !.tool = tool, !.params = params,
                                          !.result = Catch(apiKey)]]
                /\ UNCHANGED requests
           ELSE /\ calls' = [calls EXCEPT ![i] =
                                [@ EXCEPT !.pc = "awaiting", !.tool = tool,
                                          !.params = params]]
                /\ requests' = Append(requests, HandlerRequest(tool, params, apiKey))
    /\ UNCHANGED <<page, norm, flat, err, fmt, env, upstream, call, server, trunc, client>>


\* A makeApiRequest that keeps the last response of each tool in a table
\* shared by all invocations and answers from it.
TransportResolveAtCached(i, body) ==
    /\ calls[i].pc = "awaiting"
    /\ LET others == {j \in Invocations \ {i} :
                          /\ calls[j].tool = calls[i].tool
                          /\ calls[j].transport # NoCall
                          /\ calls[j].transport[1] = "resolved"}
           cached == IF others = {} THEN body
                     ELSE calls[CHOOSE j \in others : TRUE].transport[2]
           data == normalizeResponse(cached)
           outcome == IF Threw(data) THEN data
                      ELSE AfterAwait(calls[i].tool, calls[i].params, data)
           response == IF Threw(data) THEN NoCall
                       ELSE Window(calls[i].tool, calls[i].params, data)
       IN  calls' = [calls EXCEPT ![i] =
                        [@ EXCEPT !.pc = "done",
                                  !.transport = <<"resolved", body>>,
                                  !.window = response,
                                  !.result = Catch(outcome)]]
    /\ UNCHANGED <<page, norm, flat, err, fmt, env, upstream, requests, call, server, trunc, client>>

\* axios resolves for invocation i: makeApiRequest normalizes response.data
\* and the handler runs to its return, on its own locals.
TransportResolveAt(i, body) ==
    /\ calls[i].pc = "awaiting"
    /\ LET data == normalizeResponse(body)
           outcome == IF Threw(data) THEN data
                      ELSE AfterAwait(calls[i].tool, calls[i].params, data)
           response == IF Threw(data) THEN NoCall
                       ELSE Window(calls[i].tool, calls[i].params, data)
       IN  calls' = [calls EXCEPT ![i] =
                        [@ EXCEPT !.pc = "done",
                                  !.transport = <<"resolved", body>>,
                                  !.window = response,
                                  !.result = Catch(outcome)]]
    /\ UNCHANGED <<page, norm, flat, err, fmt, env, upstream, requests, call, server, trunc, client>>

\* axios rejects for invocation i.
TransportRejectAt(i, error) ==
    /\ calls[i].pc = "awaiting"
    /\ calls' = [calls EXCEPT ![i] =
                     [@ EXCEPT !.pc = "done",
                               !.transport = <<"rejected", error>>,
                               !.result = Catch(Throw(error))]]
    /\ UNCHANGED <<page, norm, flat, err, fmt, env, upstream, requests, call, server, trunc, client>>

NextConcurrent ==
    \/ \E i \in Invocations, tool \in Tools, params \in ConcurrentParams :
           InvokeAt(i, tool, params)
    \/ \E i \in Invocations, body \in ConcurrentBodies : TransportResolveAt(i, body)
    \/ \E i \in Invocations, error \in ConcurrentErrors : TransportRejectAt(i, error)

SpecConcurrent == InitConcurrent /\ [][NextConcurrent]_vars

\* What one invocation returns when it runs alone with the given arguments
\* and the given Transport outcome.
RunAlone(environment, tool, params, transport) ==
    IF transport = NoCall THEN Catch(getApiKey(environment))
    ELSE IF transport[1] = "rejected" THEN Catch(Throw(transport[2]))
    ELSE LET data == normalizeResponse(transport[2])
         IN  Catch(IF Threw(data) THEN data ELSE AfterAwait(tool, params, data))

\* C22: invocations share no mutable state: in every interleaving of two
\* invocations at their Transport suspension points, each returns exactly
\* the text it would return run alone with the same arguments and the same
\* Transport response.
InvocationsIndependent ==
    \A i \in Invocations :
        calls[i].pc = "done" =>
            /\ SingleTextItem(calls[i].result)
            /\ calls[i].result =
                   RunAlone(env, calls[i].tool, calls[i].params, calls[i].transport)

\* Invocation 1 sent its request first and is still waiting for the answer
\* while invocation 2, called after it, has received its response and
\* returned its own text.
InvocationsIndependentWitness ==
    /\ Len(requests) = 2
    /\ calls[1].tool = "chorus_list_conversations"
    /\ calls[2].tool = "chorus_list_conversations"
    /\ calls[1].params.limit = 1
    /\ calls[2].params.limit = 2
    /\ GetProp(requests[1].params, "page[size]") = Num(1)
    /\ GetProp(requests[2].params, "page[size]") = Num(2)
    /\ calls[1].pc = "awaiting"
    /\ calls[2].pc = "done"
    /\ calls[2].transport # NoCall
    /\ calls[2].transport[1] = "resolved"
    /\ calls[2].window # NoCall
    /\ GetProp(calls[2].window, "total") = Num(10)

(***************************************************************************)
(* index.ts: the server registers its tools at start-up and then serves    *)
(* tool calls.  Each tool is listed with the annotation preset it is       *)
(* registered with and the request its handler passes to makeApiRequest.   *)
(***************************************************************************)
\* registerConversationTools: name, annotation preset, method and endpoint of its request.
ConversationTools ==
    << <<"chorus_list_conversations", "READ_ONLY", "GET", "conversations">>,
       <<"chorus_get_conversation", "READ_ONLY", "GET", "conversations/id1">>,
       <<"chorus_get_transcript", "READ_ONLY", "GET", "conversations/id1">>,
       <<"chorus_get_conversation_trackers", "READ_ONLY", "GET", "conversations/id1">>,
       <<"chorus_search_conversations", "READ_ONLY", "GET", "conversations">> >>

\* registerUserTools: name, annotation preset, method and endpoint of its request.
UserTools ==
    << <<"chorus_list_users", "READ_ONLY", "GET", "users">>,
       <<"chorus_get_user", "READ_ONLY", "GET", "users/id1">>,
       <<"chorus_search_users", "READ_ONLY", "GET", "users/search">> >>

\* registerTeamTools: name, annotation preset, method and endpoint of its request.
TeamTools ==
    << <<"chorus_list_teams", "READ_ONLY", "GET", "teams">>,
       <<"chorus_get_team", "READ_ONLY", "GET", "teams/id1">>,
       <<"chorus_get_team_members", "READ_ONLY", "GET", "teams/id1">> >>

\* registerScorecardTools: name, annotation preset, method and endpoint of its request.
ScorecardTools ==
    << <<"chorus_list_scorecards", "READ_ONLY", "GET", "scorecards">>,
       <<"chorus_get_scorecard", "READ_ONLY", "GET", "scorecards/id1">>,
       <<"chorus_list_scorecard_templates", "READ_ONLY", "GET", "scorecards/templates">>,
       <<"chorus_get_scorecard_template", "READ_ONLY", "GET", "scorecards/templates/id1">> >>

\* registerPlaylistTools: name, annotation preset, method and endpoint of its request.
PlaylistTools ==
    << <<"chorus_list_playlists", "READ_ONLY", "GET", "playlists">>,
       <<"chorus_get_playlist", "READ_ONLY", "GET", "playlists/id1">>,
       <<"chorus_list_playlist_moments", "READ_ONLY", "GET", "playlists/id1/moments">> >>

\* registerMomentTools: name, annotation preset, method and endpoint of its request.
MomentTools ==
    << <<"chorus_list_moments", "READ_ONLY", "GET", "moments">>,
       <<"chorus_get_moment", "READ_ONLY", "GET", "moments/id1">>,
       <<"chorus_create_moment", "CREATE", "POST", "moments">>,
       <<"chorus_delete_moment", "DELETE", "DELETE", "moments/id1">> >>

\* registerEmailTools: name, annotation preset, method and endpoint of its request.
EmailTools ==
    << <<"chorus_list_emails", "READ_ONLY", "GET", "emails">>,
       <<"chorus_get_email", "READ_ONLY", "GET", "emails/id1">> >>

\* registerEngagementTools: name, annotation preset, method and endpoint of its request.
EngagementTools ==
    << <<"chorus_filter_engagements", "READ_ONLY", "POST", "engagements/filter">>,
       <<"chorus_get_engagement", "READ_ONLY", "GET", "engagements/id1">> >>

\* registerReportTools: name, annotation preset, method and endpoint of its request.
ReportTools ==
    << <<"chorus_list_reports", "READ_ONLY", "GET", "reports">>,
       <<"chorus_get_report", "READ_ONLY", "GET", "reports/id1">>,
       <<"chorus_get_activity_metrics", "READ_ONLY", "GET", "reports/activity">> >>

\* registerSavedSearchTools: name, annotation preset, method and endpoint of its request.
SavedSearchTools ==
    << <<"chorus_list_saved_searches", "READ_ONLY", "GET", "saved-searches">>,
       <<"chorus_get_saved_search", "READ_ONLY", "GET", "saved-searches/id1">>,
       <<"chorus_execute_saved_search", "READ_ONLY", "POST", "saved-searches/id1/execute">> >>

\* registerVideoConferenceTools: name, annotation preset, method and endpoint of its request.
VideoConferenceTools ==
    << <<"chorus_list_video_conferences", "READ_ONLY", "GET", "video-conferences">>,
       <<"chorus_get_video_conference", "READ_ONLY", "GET", "video-conferences/id1">>,
       <<"chorus_upload_recording", "CREATE", "POST", "video-conferences">>,
       <<"chorus_delete_recording", "DELETE", "DELETE", "video-conferences/id1">> >>

\* registerIntegrationTools: name, annotation preset, method and endpoint of its request.
IntegrationTools ==
    << <<"chorus_list_integrations", "READ_ONLY", "GET", "integrations">>,
       <<"chorus_get_integration", "READ_ONLY", "GET", "integrations/id1">>,
       <<"chorus_get_session", "READ_ONLY", "GET", "sessions/current">> >>

\* The register functions in the order index.ts calls them.
ToolGroups ==
    << ConversationTools, UserTools, TeamTools, ScorecardTools, PlaylistTools,
       MomentTools, EmailTools, EngagementTools, ReportTools, SavedSearchTools,
       VideoConferenceTools, IntegrationTools >>

ToolRows == UNION {{ToolGroups[g][i] : i \in 1..Len(ToolGroups[g])} : g \in 1..Len(ToolGroups)}
ToolNames == {row[1] : row \in ToolRows}
ToolRow(name) == CHOOSE row \in ToolRows : row[1] = name

ToolAnnotation(name) == ToolRow(name)[2]

\* The handlers with chorus_get_moment sending the method of the handler
\* registered next to it.
ToolMethodCopied(name) ==
    IF name = "chorus_get_moment" THEN ToolRow("chorus_delete_moment")[3]
    ELSE ToolRow(name)[3]

ToolMethod(name) == ToolRow(name)[3]
ToolEndpoint(name) == ToolRow(name)[4]

\* The tools the README and the registration test call write tools.
WRITE_TOOLS ==
    {"chorus_create_moment", "chorus_delete_moment",
     "chorus_upload_recording", "chorus_delete_recording"}
READ_ONLY_TOOLS == ToolNames \ WRITE_TOOLS

\* process.env at start-up.
ServerEnvironments ==
    [CHORUS_API_KEY : {Str("token"), Str(""), Undefined},
     CHORUS_TOOL_MODE : {Undefined, Str("readonly"), Str("all")}]

\* server.step counts the register calls done; after the last one the
\* transport is connected.
Connected == Len(ToolGroups) + 1

InitServer ==
    /\ env \in ServerEnvironments
    /\ server = ServerIdle
    /\ trunc = TruncIdle
    /\ client = ClientIdle
    /\ requests = <<>>
    /\ call = CallIdle
    /\ calls = CallsIdle
    /\ page = PageIdle
    /\ norm = NormIdle
    /\ flat = FlatIdle
    /\ err = ErrIdle
    /\ fmt = FmtIdle
    /\ upstream = <<>>

\* The next register function runs: every tool of its group is registered.
RegisterTools ==
    /\ server.step < Len(ToolGroups)
    /\ server' = [server EXCEPT
                      !.step = @ + 1,
                      !.tools = @ \cup {ToolGroups[server.step + 1][i][1] :
                                           i \in 1..Len(ToolGroups[server.step + 1])}]
    /\ UNCHANGED <<page, norm, flat, err, fmt, env, upstream, requests, call, calls, trunc, client>>

\* runStdio / runHTTP: the server connects its transport.
Connect ==
    /\ server.step = Len(ToolGroups)
    /\ server' = [server EXCEPT !.step = Connected]
    /\ UNCHANGED <<page, norm, flat, err, fmt, env, upstream, requests, call, calls, trunc, client>>

\* A client calls a registered tool: its handler passes its request to
\* makeApiRequest, which reads the API key and sends it.
CallTool(name) ==
    /\ server.step = Connected
    /\ server.called = ""
    /\ name \in server.tools
    /\ server' = [server EXCEPT !.called = name]
    /\ LET apiKey == getApiKey(env)
       IN  IF Threw(apiKey) THEN UNCHANGED requests
           ELSE requests' = Append(requests,
                                   RequestConfig(ToolEndpoint(name), ToolMethod(name),
                                                 Undefined, apiKey))
    /\ UNCHANGED <<page, norm, flat, err, fmt, env, upstream, call, calls, trunc, client>>

NextServer ==
    \/ RegisterTools
    \/ Connect
    \/ \E name \in ToolNames : CallTool(name)

SpecServer == InitServer /\ [][NextServer]_vars

\* The tool mode the server was started in; readonly is the default.
ToolMode == IF env.CHORUS_TOOL_MODE = Str("all") THEN "all" ELSE "readonly"

\* C23: in readonly mode (the default) exactly the 35 read-only tools are
\* registered and no write tool is; the write tools are registered only
\* in mode all.
ReadonlyModeRegistersNoWriteTools ==
    server.step = Connected =>
        /\ ToolMode = "readonly" =>
               /\ server.tools = READ_ONLY_TOOLS
               /\ Cardinality(server.tools) = 35
               /\ server.tools \cap WRITE_TOOLS = {}
        /\ server.tools \cap WRITE_TOOLS # {} => ToolMode = "all"

(***************************************************************************)
(* End to end through chorus_list_conversations.                           *)
(***************************************************************************)
\* The invocation of the example: offset 0, limit 2, answered with a
\* collection envelope of two records and meta.page.total = 10.
ExampleServed ==
    /\ ListServed
    /\ call.params.offset = 0
    /\ call.params.limit = 2
    /\ LET body == call.transport[2]
           data == GetProp(body, "data")
       IN  /\ Tag(body) = "obj"
           /\ "data" \in Keys(Val(body))
           /\ IsArray(data)
           /\ Len(Val(data)) = 2
           /\ \A i \in 1..2 : /\ Tag(Val(data)[i]) = "obj"
                               /\ "attributes" \in Keys(Val(Val(data)[i]))
           /\ OptProp(OptProp(GetProp(body, "meta"), "page"), "total") = Num(10)

\* C24: a collection envelope with 2 records and meta.page.total = 10,
\* requested with offset = 0 and limit = 2, yields a canonical collection
\* with total = 10 and a window with count = 2, has_more = true,
\* next_offset = 2.
EndToEndExample ==
    ExampleServed =>
        LET canonical == normalizeResponse(call.transport[2])
        IN  /\ GetProp(canonical, "total") = Num(10)
            /\ Len(Val(GetProp(canonical, "items"))) = 2
            /\ call.window # NoCall
            /\ GetProp(call.window, "total") = Num(10)
            /\ GetProp(call.window, "count") = Num(2)
            /\ GetProp(call.window, "has_more") = Bool(TRUE)
            /\ GetProp(call.window, "next_offset") = Num(2)

\* The example was served in structured format and its window came back
\* in the returned text.
EndToEndExampleWitness ==
    /\ ExampleServed
    /\ call.params.response_format = "json"
    /\ GetProp(call.window, "next_offset") = Num(2)
    /\ ToEqual(JSONParse(Val(ResultText)), call.window)

(***************************************************************************)
(* truncateResponse on its own: the texts are drawn in Init, the actions   *)
(* apply the function once and then to its own result.                     *)
(***************************************************************************)
Spread == (0 - MaxSpread)..MaxSpread

\* Texts around the limit, around the length of a truncated output, texts
\* that already carry the notice across the limit, and short ones.
TruncTexts ==
    {Str(""), Str("# Title\nContent"), Str(TruncationNotice),
     Str(Text(2 * CHARACTER_LIMIT))}
    \cup {Str(Text(CHARACTER_LIMIT + d)) : d \in Spread}
    \cup {Str(Text(CHARACTER_LIMIT + Len(TruncationNotice) + d)) : d \in Spread}
    \cup {Str(Text(CHARACTER_LIMIT + d) \o TruncationNotice) : d \in Spread}

InitTruncate ==
    /\ trunc \in [text : TruncTexts, once : {NoCall}, twice : {NoCall}]
    /\ client = ClientIdle
    /\ page = PageIdle
    /\ norm = NormIdle
    /\ flat = FlatIdle
    /\ err = ErrIdle
    /\ fmt = FmtIdle
    /\ upstream = <<>>
    /\ calls = CallsIdle
    /\ server = ServerIdle
    /\ HandlerIdle

TruncateOnce ==
    /\ trunc.once = NoCall
    /\ trunc' = [trunc EXCEPT !.once = truncateResponse(trunc.text)]
    /\ UNCHANGED <<page, norm, flat, err, fmt, env, upstream, requests, call, calls, server, client>>

TruncateAgain ==
    /\ trunc.once # NoCall
    /\ trunc.twice = NoCall
    /\ trunc' = [trunc EXCEPT !.twice = truncateResponse(trunc.once)]
    /\ UNCHANGED <<page, norm, flat, err, fmt, env, upstream, requests, call, calls, server, client>>

NextTruncate == TruncateOnce \/ TruncateAgain

SpecTruncate == InitTruncate /\ [][NextTruncate]_vars

\* C25: truncateResponse returns its input unchanged, with no notice
\* appended, for every text of length <= CHARACTER_LIMIT, a text of
\* exactly CHARACTER_LIMIT characters included.
ShortTextUnchanged ==
    (trunc.once # NoCall /\ Len(Val(trunc.text)) <= CHARACTER_LIMIT) =>
        /\ trunc.once = trunc.text
        /\ (Len(Val(trunc.text)) < Len(TruncationNotice)
               \/ ~EndsWith(Val(trunc.text), TruncationNotice))
             => ~EndsWith(Val(trunc.once), TruncationNotice)

\* A text of exactly CHARACTER_LIMIT characters came back as it was.
ShortTextUnchangedWitness ==
    /\ trunc.once # NoCall
    /\ Len(Val(trunc.text)) = CHARACTER_LIMIT
    /\ trunc.once = trunc.text

\* C27: truncateResponse is idempotent: truncating a returned text again
\* returns it as it is, although a truncated output is itself longer than
\* CHARACTER_LIMIT.
TruncateIdempotent ==
    trunc.twice # NoCall => trunc.twice = trunc.once

\* A truncated output, longer than the limit, was truncated again and
\* came back equal.
TruncateIdempotentWitness ==
    /\ trunc.twice # NoCall
    /\ Len(Val(trunc.text)) > CHARACTER_LIMIT
    /\ trunc.once # trunc.text
    /\ Len(Val(trunc.once)) > CHARACTER_LIMIT
    /\ trunc.twice = trunc.once

(***************************************************************************)
(* Empty results of a list handler.                                        *)
(***************************************************************************)
\* The items of the normalized response the list handler received, as the
\* handler reads them (data.items || []).
ServedItems ==
    LET data == normalizeResponse(call.transport[2])
    IN  OrElse(GetProp(data, "items"), Arr(<<>>))

\* The handler was served a response whose normalization has no items.
EmptyListServed ==
    /\ ListServed
    /\ InvocationFailure = NoCall
    /\ Len(Val(ServedItems)) = 0

\* C26: when the normalized response has zero items, the list handler
\* returns its fixed 'No ... found' text instead of a rendered window, in
\* markdown and in json format alike and whatever total the response
\* reports.
EmptyListReturnsFixedText ==
    EmptyListServed =>
        /\ SingleTextItem(call.result)
        /\ ResultText = Str("No conversations found matching the specified filters.")

\* A json invocation was served no items together with a reported total
\* of 4 and returned the fixed text.
EmptyListReturnsFixedTextWitness ==
    /\ EmptyListServed
    /\ call.params.response_format = "json"
    /\ GetProp(normalizeResponse(call.transport[2]), "total") = Num(4)
    /\ ResultText = Str("No conversations found matching the specified filters.")

(***************************************************************************)
(* A client paging through a list tool: it starts at offset 0 and, while   *)
(* the returned text says that more results are available, calls the tool  *)
(* again with the next offset the text names.  The upstream collection is  *)
(* fixed for the whole walk.                                               *)
(***************************************************************************)
\* The user IDs a team record embeds.
TeamUsers(n) == [i \in 1..n |-> Num(100 + i)]

MoreMarker == "\nMore results available. Use offset="

\* The position of the first occurrence of p in t; 0 when there is none.
IndexOf(t, p) ==
    IF Contains(t, p)
    THEN CHOOSE i \in 1..(Len(t) - Len(p) + 1) :
             /\ SubSeq(t, i, i + Len(p) - 1) = p
             /\ \A j \in 1..(i - 1) : SubSeq(t, j, j + Len(p) - 1) # p
    ELSE 0

JsonMoreMarker == "\"has_more\": true"
JsonNextMarker == "\"next_offset\": "

\* The offset the returned text tells the client to continue from: the
\* next_offset of a json window whose has_more is true, the offset the
\* markdown pagination line names; -1 when the text names none.
NextOffsetOf(text, format) ==
    IF format = "json"
    THEN IF Contains(text, JsonMoreMarker) /\ Contains(text, JsonNextMarker)
         THEN ParseDigits(text, IndexOf(text, JsonNextMarker) + Len(JsonNextMarker), 0)[1]
         ELSE 0 - 1
    ELSE IF Contains(text, MoreMarker)
         THEN ParseDigits(text, IndexOf(text, MoreMarker) + Len(MoreMarker), 0)[1]
         ELSE 0 - 1

\* The fixed texts of the two list tools for an empty result.
EmptyTexts ==
    {Str("No conversations found matching the specified filters."),
     Str("No members found for this team.")}

\* The ids of the items of the page the finished invocation returned, in
\* the order of the window the text renders.
PageIds ==
    IF ResultText \in EmptyTexts \/ call.window = NoCall THEN <<>>
    ELSE [i \in 1..Len(Val(GetProp(call.window, "items"))) |->
              GetProp(Val(GetProp(call.window, "items"))[i], "id")]

InitClient ==
    /\ client \in [pc : {"ready"}, tool : Tools, limit : Limits,
                    response_format : ResponseFormats, offset : {0}, pages : {<<>>}]
    /\ upstream \in IF client.tool = "chorus_list_conversations"
                     THEN {UpstreamResults(n) : n \in 0..MaxUpstream}
                     ELSE {TeamUsers(n) : n \in 0..MaxUsers}
    /\ page = PageIdle
    /\ norm = NormIdle
    /\ flat = FlatIdle
    /\ err = ErrIdle
    /\ fmt = FmtIdle
    /\ calls = CallsIdle
    /\ server = ServerIdle
    /\ trunc = TruncIdle
    /\ HandlerIdle

\* The client calls the tool with its current offset.
ClientInvoke ==
    /\ client.pc = "ready"
    /\ Len(requests) < MaxInvocations
    /\ Invoke(client.tool,
              [limit |-> client.limit, offset |-> client.offset,
               response_format |-> client.response_format, team_id |-> "t1"])

\* The upstream answers the request in flight from its fixed collection.
ClientServe ==
    /\ call.pc = "awaiting"
    /\ TransportResolve(IF call.tool = "chorus_list_conversations"
                        THEN UpstreamPage(requests[Len(requests)], upstream)
                        ELSE TeamBody(Len(upstream)))

\* The client reads the returned text: it keeps the page and either goes
\* on from the offset the text names or stops.
ClientRead ==
    /\ client.pc = "ready"
    /\ call.pc = "done"
    /\ LET next == NextOffsetOf(Val(ResultText), client.response_format)
       IN  /\ client' = [client EXCEPT
                             !.pages = Append(@, PageIds),
                             !.offset = IF next < 0 THEN @ ELSE next,
                             !.pc = IF next < 0 THEN "done" ELSE "ready"]
           /\ call' = IF next < 0 THEN call ELSE CallIdle
    /\ UNCHANGED <<page, norm, flat, err, fmt, env, upstream, requests, calls, server, trunc>>

NextClient == ClientInvoke \/ ClientServe \/ ClientRead

SpecClient == InitClient /\ [][NextClient]_vars

\* The client keeps calling, the Transport settles every request (axios
\* resolves or times out) and the client reads every answer.  The weak
\* fairness of ClientServe and of ClientRead is written by their enabling
\* conditions: ClientServe is enabled exactly while a request is in
\* flight, ClientRead exactly while an unread answer waits, and each of them
\* leaves that condition.
SpecClientFair ==
    /\ SpecClient
    /\ WF_vars(ClientInvoke)
    /\ []<>(call.pc # "awaiting")
    /\ []<>(~(client.pc = "ready" /\ call.pc = "done"))

\* The last response the client read closes the walk: a window whose
\* has_more is false, or the fixed empty-result text.
WalkClosed ==
    /\ client.pc = "done"
    /\ call.pc = "done"
    /\ InvocationFailure = NoCall
    /\ \/ ResultText \in EmptyTexts
       \/ GetProp(call.window, "has_more") = Bool(FALSE)

\* C28: for every list tool and fixed upstream collection, a client that
\* starts at offset 0 and calls again with offset = next_offset while
\* has_more is true reaches, after finitely many invocations, a response
\* with has_more = false or the fixed empty-result text.
PagingTerminates == <>WalkClosed

\* A walk of more than one invocation over the conversations has closed
\* on a window with has_more = false.
PagingTerminatesWitness ==
    /\ WalkClosed
    /\ client.tool = "chorus_list_conversations"
    /\ Len(client.pages) >= 3
    /\ GetProp(call.window, "has_more") = Bool(FALSE)

\* The user IDs of the fixed team, as the tool renders them.
TeamIds == [i \in 1..Len(upstream) |-> Str(JsString(upstream[i]))]

IsPrefix(p, q) == Len(p) <= Len(q) /\ SubSeq(q, 1, Len(p)) = p

DELETE_TOOLS == {"chorus_delete_moment", "chorus_delete_recording"}

\* C30: DELETE requests are issued only by the handlers of the tools
\* annotated ANNOTATIONS.DELETE, which are chorus_delete_moment and
\* chorus_delete_recording; the handler of a tool annotated READ_ONLY
\* issues only GET or POST requests, never DELETE or PUT.
DeleteOnlyFromDeleteTools ==
    /\ {name \in ToolNames : ToolAnnotation(name) = "DELETE"} = DELETE_TOOLS
    /\ server.called = "" => requests = <<>>
    /\ server.called # "" =>
           \A i \in 1..Len(requests) :
               /\ requests[i].method = "DELETE" =>
                      /\ ToolAnnotation(server.called) = "DELETE"
                      /\ server.called \in DELETE_TOOLS
               /\ ToolAnnotation(server.called) = "READ_ONLY" =>
                      requests[i].method \in {"GET", "POST"}

\* chorus_delete_recording was called and sent a DELETE request.
DeleteOnlyFromDeleteToolsWitness ==
    /\ server.called = "chorus_delete_recording"
    /\ Len(requests) = 1
    /\ requests[1].method = "DELETE"
    /\ ToolAnnotation(server.called) = "DELETE"

====
